---- MODULE Spec2Model ----
(***************************************************************************)
(* A model of the content-protecting, chunked rewrite pipeline of          *)
(* translate_md.py (class MarkdownTranslator).                             *)
(*                                                                         *)
(* A text is a sequence of one-character strings, so that the regular      *)
(* expressions and the inline-math scanner of the source act on the same   *)
(* characters as in the program, placeholders included.                    *)
(***************************************************************************)
EXTENDS Integers, Sequences, FiniteSets, TLC

VARIABLES
    pc,                    \* position of the run in the operation under check
    text,                  \* the raw input text
    protected_text,        \* text after protect_blocks / the scanner
    all_protected_blocks,  \* the span list (ProtectedBlock objects)
    restored,              \* result of restore_blocks / fix_broken_placeholders
    chunks,                \* translate_large_document: the chunk list
    chunk_index,           \* the ordinal (from 1) of the chunk the loop is at
    translated_chunks,     \* the rewritten and restored chunks so far
    full_translated,       \* the chunks joined (line 495)
    final_text,            \* the document translate_large_document returns
    requests,              \* every text sent to the service, with its context
    replies,               \* (ordinal, rewritten chunk) for every chunk done
    verbatim,              \* the service has returned every request unchanged
    validation_reports,    \* process_markdown_file: the validation_result, once made
    polish_requests,       \* the texts sent to the service for polishing
    output_files,          \* the contents written to the output path
    errors,                \* the exception that has left process_markdown_file
    max_retries,           \* a service call: self.max_retries
    attempt,               \* the attempt the loop of the call is at
    outcomes,              \* what every attempt so far has met
    sleeps,                \* the durations slept between attempts
    returned,              \* the value the call has returned
    raised,                \* the exception the call has raised
    entry,                 \* rasterization: the function called
    pdf_exists,            \* os.path.exists(pdf_path)
    pdf_readable,          \* convert_from_path can read the file
    pdf_pages,             \* the pages of the document
    save_intermediate,     \* self.save_intermediate
    dirs,                  \* the directories the run has created
    files,                 \* the files the run has written
    service_calls,         \* the requests the run has made to the service
    page_num,              \* the page the loop over the pages is at
    page_args,             \* fix_page: the parts of the pages argument
    no_merge,              \* args.no_merge
    total_pages,           \* the page images in pages/ (page_001.png ...)
    page_md,               \* 02_with_images/page_NNN.md: content or ABSENT
    output_md,             \* output.md: content or ABSENT
    page_numbers,          \* the list parse_page_numbers has returned
    attempted,             \* the pages fix_single_page was called for, in order
    failed,                \* the pages whose fix_single_page has raised
    answers,               \* what the user has typed at the prompt of the merge
    merge_returned         \* what merge_all_pages has returned

\* the state of one run of translate_large_document
pipeVars == <<chunks, chunk_index, translated_chunks, full_translated,
              final_text, requests, replies, verbatim>>

\* the state of process_markdown_file after translate_large_document
fileVars == <<validation_reports, polish_requests, output_files, errors>>

\* the state of one service call (call_api, _make_request)
retryVars == <<max_retries, attempt, outcomes, sleeps, returned, raised>>

\* the state of one rasterization (process_pdf, pdf_to_images)
rasterVars == <<entry, pdf_exists, pdf_readable, pdf_pages, save_intermediate,
                dirs, files, service_calls, page_num>>

\* the state of one run of the main of fix_page.py
fixVars == <<page_args, no_merge, total_pages, page_md, output_md,
             page_numbers, attempted, failed, answers, merge_returned>>

toolVars == <<rasterVars, fixVars>>

vars == <<pc, text, protected_text, all_protected_blocks, restored, pipeVars,
          fileVars, retryVars, toolVars>>

\* no run of translate_large_document is under way
PipeIdle ==
    /\ chunks = <<>>
    /\ chunk_index = 0
    /\ translated_chunks = <<>>
    /\ full_translated = <<>>
    /\ final_text = <<>>
    /\ requests = <<>>
    /\ replies = {}
    /\ verbatim = TRUE
    /\ validation_reports = <<>>
    /\ polish_requests = <<>>
    /\ output_files = <<>>
    /\ errors = <<>>

\* no service call is under way
RetryIdle ==
    /\ max_retries = 0
    /\ attempt = 0
    /\ outcomes = <<>>
    /\ sleeps = <<>>
    /\ returned = <<>>
    /\ raised = <<>>

\* no rasterization is under way
RasterIdle ==
    /\ entry = "none"
    /\ pdf_exists = FALSE
    /\ pdf_readable = FALSE
    /\ pdf_pages = 0
    /\ save_intermediate = FALSE
    /\ dirs = {}
    /\ files = {}
    /\ service_calls = 0
    /\ page_num = 0

\* fix_page.py is not running
FixIdle ==
    /\ page_args = <<>>
    /\ no_merge = FALSE
    /\ total_pages = 0
    /\ page_md = <<>>
    /\ output_md = <<>>
    /\ page_numbers = <<>>
    /\ attempted = <<>>
    /\ failed = {}
    /\ answers = <<>>
    /\ merge_returned = <<>>

ToolIdle == RasterIdle /\ FixIdle

-----------------------------------------------------------------------------
(* Characters *)

NL == "\n"
BS == "\\"
\* the backquote character (the lexer of TLA+ accepts no backquote in a string)
BT == "bq"
DQ == "$"

Digits == <<"0", "1", "2", "3", "4", "5", "6", "7", "8", "9">>
Uppers == <<"A", "B", "C", "D", "E", "F", "G", "H", "I", "J", "K", "L", "M",
            "N", "O", "P", "Q", "R", "S", "T", "U", "V", "W", "X", "Y", "Z">>

IsDigit(c) == \E k \in 1..10 : Digits[k] = c
IsUpper(c) == \E k \in 1..26 : Uppers[k] = c
\* the class [A-Z_] of the placeholder patterns
IsKindChar(c) == IsUpper(c) \/ c = "_"
\* str.strip() / \s : the whitespace of the modelled texts
IsSpace(c) == c \in {" ", NL, "\t"}

\* code point of a character that can occur in a placeholder
Ord(c) ==
    IF IsDigit(c) THEN 47 + (CHOOSE k \in 1..10 : Digits[k] = c)
    ELSE IF c = "<" THEN 60
    ELSE IF c = ">" THEN 62
    ELSE IF IsUpper(c) THEN 64 + (CHOOSE k \in 1..26 : Uppers[k] = c)
    ELSE IF c = "_" THEN 95
    ELSE 0

-----------------------------------------------------------------------------
(* Strings *)

\* s[a..b] with the tolerance Python has of an empty range
Slice(s, a, b) == IF a > b THEN <<>> ELSE SubSeq(s, a, b)

\* s[from:] starts with p
StartsAt(s, from, p) ==
    /\ from >= 1
    /\ from + Len(p) - 1 <= Len(s)
    /\ \A k \in 1..Len(p) : s[from + k - 1] = p[k]

\* p in s
Contains(s, p) == \E i \in 1..(Len(s) - Len(p) + 1) : StartsAt(s, i, p)

\* first index >= from at which p occurs in s, 0 when there is none
Find(s, from, p) ==
    LET hits == {h \in from..(Len(s) - Len(p) + 1) : StartsAt(s, h, p)}
    IN  IF hits = {} THEN 0 ELSE CHOOSE h \in hits : \A g \in hits : h <= g

\* first index >= from holding character c, 0 when there is none
FindChar(s, from, c) == Find(s, from, <<c>>)

RECURSIVE ReplaceFrom(_, _, _, _)
ReplaceFrom(s, from, old, new) ==
    LET at == Find(s, from, old)
    IN  IF at = 0 THEN Slice(s, from, Len(s))
        ELSE Slice(s, from, at - 1) \o new
             \o ReplaceFrom(s, at + Len(old), old, new)

\* str.replace(old, new), old non-empty: every non-overlapping occurrence,
\* leftmost first
Replace(s, old, new) == ReplaceFrom(s, 1, old, new)

RECURSIVE Concat(_)
Concat(ss) == IF ss = <<>> THEN <<>> ELSE Head(ss) \o Concat(Tail(ss))

\* a < b as Python compares str
RECURSIVE StrLess(_, _)
StrLess(a, b) ==
    IF b = <<>> THEN FALSE
    ELSE IF a = <<>> THEN TRUE
    ELSE IF Head(a) # Head(b) THEN Ord(Head(a)) < Ord(Head(b))
    ELSE StrLess(Tail(a), Tail(b))

\* decimal digits of n, most significant first
RECURSIVE DecDigits(_)
DecDigits(n) ==
    IF n < 10 THEN <<Digits[n + 1]>>
    ELSE Append(DecDigits(n \div 10), Digits[(n % 10) + 1])

\* f"{n:04d}"
Fmt04d(n) ==
    LET d == DecDigits(n)
    IN  IF Len(d) >= 4 THEN d ELSE [k \in 1..(4 - Len(d)) |-> "0"] \o d

\* int(digits)
RECURSIVE ParseInt(_)
ParseInt(d) ==
    IF d = <<>> THEN 0
    ELSE 10 * ParseInt(SubSeq(d, 1, Len(d) - 1))
         + ((CHOOSE k \in 1..10 : Digits[k] = d[Len(d)]) - 1)

-----------------------------------------------------------------------------
(* Placeholders *)

KIND_CODE_BLOCK  == <<"C", "O", "D", "E", "_", "B", "L", "O", "C", "K">>
KIND_INLINE_CODE == <<"I", "N", "L", "I", "N", "E", "_", "C", "O", "D", "E">>
KIND_MATH_BLOCK  == <<"M", "A", "T", "H", "_", "B", "L", "O", "C", "K">>
KIND_INLINE_MATH == <<"I", "N", "L", "I", "N", "E", "_", "M", "A", "T", "H">>
KIND_IMAGE       == <<"I", "M", "A", "G", "E">>
KIND_HTML        == <<"H", "T", "M", "L">>

\* f"<<<{kind}_{index:04d}>>>"
Placeholder(kind, index) ==
    <<"<", "<", "<">> \o kind \o <<"_">> \o Fmt04d(index) \o <<">", ">", ">">>

\* ProtectedBlock(placeholder, original, block_type)
ProtectedBlock(placeholder, original, block_type) ==
    [placeholder |-> placeholder, original |-> original,
     block_type |-> block_type]

-----------------------------------------------------------------------------
(* protect_blocks: the five regular-expression passes and the scanner *)

\* A pass threads the text written so far, the span list and protected_index.
PassState(out, blocks, index) == [out |-> out, blocks |-> blocks, index |-> index]

\* what a function that protects returns: the text and the span list
PassResult(st) == [out |-> st.out, blocks |-> st.blocks]

\* the returned text and span list r, with the protected_index of the caller
WithIndex(r, index) == PassState(r.out, r.blocks, index)

\* end of the match of  bqbqbq[\s\S]*?bqbqbq  (bq the backquote) starting at i,
\* 0 when none
CodeBlockEnd(s, i) ==
    IF ~StartsAt(s, i, <<BT, BT, BT>>) THEN 0
    ELSE LET j == Find(s, i + 3, <<BT, BT, BT>>)
         IN  IF j = 0 THEN 0 ELSE j + 2

\* end of the match of  bq[^bq]+bq  starting at i, 0 when none
InlineCodeEnd(s, i) ==
    IF ~(s[i] = BT /\ i + 1 <= Len(s) /\ s[i + 1] # BT) THEN 0
    ELSE FindChar(s, i + 2, BT)

\* end of the match of  \$\$[\s\S]*?\$\$  starting at i, 0 when none
MathBlockEnd(s, i) ==
    IF ~StartsAt(s, i, <<DQ, DQ>>) THEN 0
    ELSE LET j == Find(s, i + 2, <<DQ, DQ>>)
         IN  IF j = 0 THEN 0 ELSE j + 1

\* end of the match of  !\[[^\]]*\]\([^)]+\)  starting at i, 0 when none
ImageEnd(s, i) ==
    IF ~StartsAt(s, i, <<"!", "[">>) THEN 0
    ELSE LET j == FindChar(s, i + 2, "]")
         IN  IF j = 0 \/ ~StartsAt(s, j + 1, <<"(">>) THEN 0
             ELSE IF ~(j + 2 <= Len(s) /\ s[j + 2] # ")") THEN 0
             ELSE FindChar(s, j + 3, ")")

\* end of the match of  <[^>]+>  starting at i, 0 when none
HtmlEnd(s, i) ==
    IF ~(s[i] = "<" /\ i + 1 <= Len(s) /\ s[i + 1] # ">") THEN 0
    ELSE FindChar(s, i + 2, ">")

\* end of the match of the pattern of one regular-expression pass starting at
\* i, 0 when none; a pass is named by the block_type it records
MatchEnd(block_type, s, i) ==
    CASE block_type = "code_block" -> CodeBlockEnd(s, i)
      [] block_type = "inline_code" -> InlineCodeEnd(s, i)
      [] block_type = "math_block" -> MathBlockEnd(s, i)
      [] block_type = "image" -> ImageEnd(s, i)
      [] block_type = "html" -> HtmlEnd(s, i)

\* start of the leftmost match at or after i, 0 when none
NextMatch(block_type, s, i) ==
    LET hits == {h \in i..Len(s) : MatchEnd(block_type, s, h) # 0}
    IN  IF hits = {} THEN 0 ELSE CHOOSE h \in hits : \A g \in hits : h <= g

\* re.sub(pattern, protect_<kind>, text) from position i on: the text before the
\* leftmost match is copied, the match is replaced by a placeholder numbered by
\* the shared protected_index and recorded as a span, and the search goes on
\* after the match.
RECURSIVE ReSubProtect(_, _, _, _, _)
ReSubProtect(block_type, kind, s, i, st) ==
    LET m == NextMatch(block_type, s, i)
    IN  IF m = 0 THEN PassState(st.out \o Slice(s, i, Len(s)), st.blocks, st.index)
        ELSE LET e == MatchEnd(block_type, s, m)
                 placeholder == Placeholder(kind, st.index)
             IN  ReSubProtect(block_type, kind, s, e + 1,
                     PassState(st.out \o Slice(s, i, m - 1) \o placeholder,
                               Append(st.blocks,
                                      ProtectedBlock(placeholder, Slice(s, m, e),
                                                     block_type)),
                               st.index + 1))

protect_code_block(st) ==
    ReSubProtect("code_block", KIND_CODE_BLOCK, st.out, 1,
                 PassState(<<>>, st.blocks, st.index))

protect_inline_code(st) ==
    ReSubProtect("inline_code", KIND_INLINE_CODE, st.out, 1,
                 PassState(<<>>, st.blocks, st.index))

protect_math_block(st) ==
    ReSubProtect("math_block", KIND_MATH_BLOCK, st.out, 1,
                 PassState(<<>>, st.blocks, st.index))

protect_image(st) ==
    ReSubProtect("image", KIND_IMAGE, st.out, 1,
                 PassState(<<>>, st.blocks, st.index))

protect_html(st) ==
    ReSubProtect("html", KIND_HTML, st.out, 1,
                 PassState(<<>>, st.blocks, st.index))

\* a scan that takes the next dollar, whatever precedes it
ClosingDollarNaive(s, i, brace_depth) == FindChar(s, i, DQ)

\* The inner while loop of the scanner: the position of the closing dollar for a
\* formula whose body starts at i, 0 when the text ends first (the else branch).
RECURSIVE ClosingDollar(_, _, _)
ClosingDollar(s, i, brace_depth) ==
    IF i > Len(s) THEN 0
    ELSE IF s[i] = BS /\ i + 1 <= Len(s) THEN ClosingDollar(s, i + 2, brace_depth)
    ELSE IF s[i] = "{" THEN ClosingDollar(s, i + 1, brace_depth + 1)
    ELSE IF s[i] = "}" THEN ClosingDollar(s, i + 1, brace_depth - 1)
    ELSE IF s[i] = DQ /\ brace_depth = 0 THEN i
    ELSE ClosingDollar(s, i + 1, brace_depth)

\* placeholder = f"<<<INLINE_MATH_{protected_index:04d}>>>"
inline_math_placeholder_as_html(protected_index) ==
    Placeholder(KIND_HTML, protected_index)

inline_math_placeholder(protected_index) ==
    Placeholder(KIND_INLINE_MATH, protected_index)

\* the else branch of the inner loop: result.append(text[start:i]) with i at the
\* end of the text
unclosed_formula_dropped(s, start) == <<>>

unclosed_formula(s, start) == Slice(s, start, Len(s))

\* The outer while loop of the scanner from position i on: characters other than
\* a dollar are copied; the first dollar of two is copied; any other dollar opens
\* a formula.
RECURSIVE ScanInlineMath(_, _, _)
ScanInlineMath(s, i, st) ==
    LET d == FindChar(s, i, DQ)
    IN  IF d = 0 THEN PassState(st.out \o Slice(s, i, Len(s)), st.blocks, st.index)
        ELSE IF d + 1 <= Len(s) /\ s[d + 1] = DQ
        THEN ScanInlineMath(s, d + 1,
                            PassState(st.out \o Slice(s, i, d), st.blocks, st.index))
        ELSE LET e == ClosingDollar(s, d + 1, 0)
             IN  IF e = 0
                 THEN PassState(st.out \o Slice(s, i, d - 1) \o unclosed_formula(s, d),
                                st.blocks, st.index)
                 ELSE LET placeholder == inline_math_placeholder(st.index)
                      IN  ScanInlineMath(s, e + 1,
                              PassState(st.out \o Slice(s, i, d - 1) \o placeholder,
                                        Append(st.blocks,
                                               ProtectedBlock(placeholder,
                                                              Slice(s, d, e),
                                                              "inline_math")),
                                        st.index + 1))

\* protect_inline_math_formulas(text, protected_blocks): the text it returns and
\* the span list it has appended to. Its counter starts at the number of
\* inline_math spans already in the list.
protect_inline_math_formulas(s, protected_blocks) ==
    LET protected_index ==
            Cardinality({k \in 1..Len(protected_blocks) :
                            protected_blocks[k].block_type = "inline_math"})
    IN  PassResult(ScanInlineMath(s, 1,
                       PassState(<<>>, protected_blocks, protected_index)))

\* pass 4 inside protect_blocks: the shared protected_index is not touched
protect_inline_math(st) ==
    WithIndex(protect_inline_math_formulas(st.out, st.blocks), st.index)

\* the state of protect_blocks after its first three passes (line 176)
BeforeInlineMath(s) ==
    protect_math_block(protect_inline_code(protect_code_block(PassState(s, <<>>, 0))))

\* protect_blocks(text): (text, protected_blocks)
protect_blocks(s) ==
    PassResult(protect_html(protect_image(protect_inline_math(BeforeInlineMath(s)))))

-----------------------------------------------------------------------------
(* restore_blocks *)

\* sorted(protected_blocks, key=lambda x: x.placeholder, reverse=True): stable,
\* so x goes behind every block whose placeholder is not smaller than its own
RECURSIVE InsertDesc(_, _)
InsertDesc(sorted, x) ==
    IF sorted = <<>> THEN <<x>>
    ELSE IF StrLess(Head(sorted).placeholder, x.placeholder)
    THEN <<x>> \o sorted
    ELSE <<Head(sorted)>> \o InsertDesc(Tail(sorted), x)

RECURSIVE SortedDesc(_)
SortedDesc(blocks) ==
    IF blocks = <<>> THEN <<>>
    ELSE InsertDesc(SortedDesc(SubSeq(blocks, 1, Len(blocks) - 1)),
                    blocks[Len(blocks)])

RECURSIVE ReplaceEach(_, _)
ReplaceEach(s, sorted_blocks) ==
    IF sorted_blocks = <<>> THEN s
    ELSE LET block == Head(sorted_blocks)
         IN  ReplaceEach(IF Contains(s, block.placeholder)
                         THEN Replace(s, block.placeholder, block.original)
                         ELSE s,
                         Tail(sorted_blocks))

\* restore_blocks(text, protected_blocks)
restore_blocks(s, protected_blocks) == ReplaceEach(s, SortedDesc(protected_blocks))

-----------------------------------------------------------------------------
(* fix_broken_placeholders *)

\* the character classes of broken_pattern: [A-Z_], \d and the closing >
InClass(class, c) ==
    CASE class = "kind" -> IsKindChar(c)
      [] class = "digit" -> IsDigit(c)
      [] class = "closer" -> c = ">"

\* last index of the greedy run of characters of the class that starts at i
\* (i - 1 when s[i] is not in the class), at most max characters long
RECURSIVE RunEnd(_, _, _, _)
RunEnd(class, s, i, max) ==
    IF max = 0 \/ i > Len(s) \/ ~InClass(class, s[i]) THEN i - 1
    ELSE RunEnd(class, s, i + 1, max - 1)

\* the pattern without its trailing >{0,2}
BrokenMatchNoGt(s, i) ==
    LET k == RunEnd("kind", s, i + 3, Len(s))
        d == RunEnd("digit", s, k + 1, 4)
    IN  IF StartsAt(s, i, <<"<", "<", "<">>) /\ k >= i + 4 /\ s[k] = "_" /\ d >= k + 1
        THEN [found |-> TRUE, block_type |-> Slice(s, i + 3, k - 1),
              index |-> ParseInt(Slice(s, k + 1, d)), end |-> d]
        ELSE [found |-> FALSE, block_type |-> <<>>, index |-> 0, end |-> 0]

\* The match of  <<<([A-Z_]+)_(\d{1,4})>{0,2}  starting at i. [A-Z_]+ is greedy
\* and gives back one character: the underscore before the digits, which is the
\* last character of the run of [A-Z_]. found is FALSE when there is no match.
BrokenMatch(s, i) ==
    LET k == RunEnd("kind", s, i + 3, Len(s))
        d == RunEnd("digit", s, k + 1, 4)
        e == RunEnd("closer", s, d + 1, 2)
    IN  IF StartsAt(s, i, <<"<", "<", "<">>) /\ k >= i + 4 /\ s[k] = "_" /\ d >= k + 1
        THEN [found |-> TRUE, block_type |-> Slice(s, i + 3, k - 1),
              index |-> ParseInt(Slice(s, k + 1, d)), end |-> e]
        ELSE [found |-> FALSE, block_type |-> <<>>, index |-> 0, end |-> 0]

\* a replacement that deletes the token it cannot match
fix_placeholder_delete(s, i, m, all_blocks) ==
    LET expected_placeholder == Placeholder(m.block_type, m.index)
        hits == {k \in 1..Len(all_blocks) :
                    all_blocks[k].placeholder = expected_placeholder}
    IN  IF hits = {} THEN <<>>
        ELSE all_blocks[CHOOSE k \in hits : \A j \in hits : k <= j].original

\* fix_placeholder(match): the original of the first span whose placeholder is
\* the complete form of the match, else the matched text itself
fix_placeholder(s, i, m, all_blocks) ==
    LET expected_placeholder == Placeholder(m.block_type, m.index)
        hits == {k \in 1..Len(all_blocks) :
                    all_blocks[k].placeholder = expected_placeholder}
    IN  IF hits = {} THEN Slice(s, i, m.end)
        ELSE all_blocks[CHOOSE k \in hits : \A j \in hits : k <= j].original

\* re.sub(broken_pattern, fix_placeholder, text) from position i on
RECURSIVE FixFrom(_, _, _)
FixFrom(s, i, all_blocks) ==
    LET hits == {h \in i..Len(s) : BrokenMatch(s, h).found}
    IN  IF hits = {} THEN Slice(s, i, Len(s))
        ELSE LET at == CHOOSE h \in hits : \A g \in hits : h <= g
                 m == BrokenMatch(s, at)
             IN  Slice(s, i, at - 1) \o fix_placeholder(s, at, m, all_blocks)
                 \o FixFrom(s, m.end + 1, all_blocks)

\* fix_broken_placeholders(text, all_blocks)
fix_broken_placeholders(s, all_blocks) == FixFrom(s, 1, all_blocks)

-----------------------------------------------------------------------------
(* translate_text: what is made of the answer of the service *)

\* not text.strip()
IsBlank(s) == \A p \in 1..Len(s) : IsSpace(s[p])

FENCE == <<BT, BT, BT>>
FENCE_MARKDOWN == FENCE \o <<"m", "a", "r", "k", "d", "o", "w", "n">>

\* first index >= i holding no whitespace, Len(s) + 1 when there is none
SkipSpace(s, i) ==
    LET stops == {p \in i..Len(s) : ~IsSpace(s[p])}
    IN  IF stops = {} THEN Len(s) + 1
        ELSE CHOOSE p \in stops : \A g \in stops : p <= g

\* re.sub(r'^bqbqbqmarkdown\s*', '', translated)
StripFenceOpen(s) ==
    IF StartsAt(s, 1, FENCE_MARKDOWN)
    THEN Slice(s, SkipSpace(s, Len(FENCE_MARKDOWN) + 1), Len(s))
    ELSE s

\* re.sub(r'\s*bqbqbq\s*$', '', translated): the match is the fence that only
\* whitespace follows, with the whole run of whitespace before it
StripFenceClose(s) ==
    LET ends == {q \in 1..(Len(s) - 2) :
                    StartsAt(s, q, FENCE) /\ IsBlank(Slice(s, q + 3, Len(s)))}
    IN  IF ends = {} THEN s
        ELSE LET q == CHOOSE e \in ends : \A g \in ends : e <= g
                 before == {p \in 1..q : IsBlank(Slice(s, p, q - 1))}
                 p == CHOOSE b \in before : \A g \in before : b <= g
             IN  Slice(s, 1, p - 1)

\* what translate_text returns for the answer of the service (lines 381-384)
clean_answer(translated) == StripFenceClose(StripFenceOpen(translated))

-----------------------------------------------------------------------------
(* translate_large_document: lines, chunks, context and the final repairs *)

\* 8000 in the source (line 421), scaled to the documents of the model
small_doc_limit == 40
\* chunk_size_limit = 6000 in the source (line 443), scaled alike
chunk_size_limit == 30

\* s.split('\n') from position i on
RECURSIVE SplitFrom(_, _)
SplitFrom(s, i) ==
    LET at == FindChar(s, i, NL)
    IN  IF at = 0 THEN <<Slice(s, i, Len(s))>>
        ELSE <<Slice(s, i, at - 1)>> \o SplitFrom(s, at + 1)

\* a split that cuts every chunk_size_limit characters instead of at line ends
SplitAtSize(s) ==
    [k \in 1..((Len(s) + chunk_size_limit - 1) \div chunk_size_limit) |->
        Slice(s, (k - 1) * chunk_size_limit + 1,
              IF k * chunk_size_limit < Len(s) THEN k * chunk_size_limit ELSE Len(s))]

\* s.split('\n')
SplitLines(s) == SplitFrom(s, 1)

\* '\n'.join(parts)
RECURSIVE JoinNL(_)
JoinNL(parts) ==
    IF parts = <<>> THEN <<>>
    ELSE IF Len(parts) = 1 THEN parts[1]
    ELSE parts[1] \o <<NL>> \o JoinNL(Tail(parts))

\* line.startswith('#') or line.strip() == '' or line.startswith('---')
IsBoundaryLine(line) ==
    \/ StartsAt(line, 1, <<"#">>)
    \/ IsBlank(line)
    \/ StartsAt(line, 1, <<"-", "-", "-">>)

ChunkerState(done, current_chunk_lines, current_size) ==
    [chunks |-> done, current_chunk_lines |-> current_chunk_lines,
     current_size |-> current_size]

\* the loop over the lines (445-459), from line k on
RECURSIVE ChunkLines(_, _, _)
ChunkLines(lines, k, st) ==
    IF k > Len(lines) THEN st
    ELSE LET line == lines[k]
             line_size == Len(line)
         IN  ChunkLines(lines, k + 1,
                 IF st.current_size + line_size > chunk_size_limit
                    /\ st.current_chunk_lines # <<>>
                 THEN IF IsBoundaryLine(line)
                      THEN ChunkerState(
                               Append(st.chunks, JoinNL(st.current_chunk_lines)),
                               <<line>>, line_size)
                      ELSE ChunkerState(
                               Append(st.chunks, JoinNL(st.current_chunk_lines)),
                               <<line>>, line_size)
                 ELSE ChunkerState(st.chunks,
                                   Append(st.current_chunk_lines, line),
                                   st.current_size + line_size))

\* a chunk list of one chunk, whatever the size of the text
split_chunks_whole(lines) == <<JoinNL(lines)>>

\* a chunk list without the lines still held when the loop ends
split_chunks_no_tail(lines) ==
    ChunkLines(lines, 1, ChunkerState(<<>>, <<>>, 0)).chunks

\* a loop that closes a chunk at a structural line only
RECURSIVE ChunkLinesStructural(_, _, _)
ChunkLinesStructural(lines, k, st) ==
    IF k > Len(lines) THEN st
    ELSE ChunkLinesStructural(lines, k + 1,
             IF st.current_size + Len(lines[k]) > chunk_size_limit
                /\ st.current_chunk_lines # <<>>
                /\ IsBoundaryLine(lines[k])
             THEN ChunkerState(
                      Append(st.chunks, JoinNL(st.current_chunk_lines)),
                      <<lines[k]>>, Len(lines[k]))
             ELSE ChunkerState(st.chunks,
                               Append(st.current_chunk_lines, lines[k]),
                               st.current_size + Len(lines[k])))

\* the chunk list of that loop
split_chunks_structural(lines) ==
    Append(ChunkLinesStructural(lines, 1, ChunkerState(<<>>, <<>>, 0)).chunks,
           JoinNL(ChunkLinesStructural(lines, 1,
                      ChunkerState(<<>>, <<>>, 0)).current_chunk_lines))

\* the chunk list of the protected text (439-462)
split_chunks(lines) ==
    LET st == ChunkLines(lines, 1, ChunkerState(<<>>, <<>>, 0))
    IN  IF st.current_chunk_lines # <<>>
        THEN Append(st.chunks, JoinNL(st.current_chunk_lines))
        ELSE st.chunks

\* the spans whose placeholder is in the chunk (471-474)
RECURSIVE BlocksIn(_, _, _)
BlocksIn(chunk, all_blocks, k) ==
    IF k > Len(all_blocks) THEN <<>>
    ELSE IF Contains(chunk, all_blocks[k].placeholder)
    THEN <<all_blocks[k]>> \o BlocksIn(chunk, all_blocks, k + 1)
    ELSE BlocksIn(chunk, all_blocks, k + 1)

chunk_blocks(chunk, all_blocks) == BlocksIn(chunk, all_blocks, 1)

\* line.strip()
IsNotBlank(line) == ~IsBlank(line)

\* get_context_from_previous_chunk(previous_chunk, num_lines)
get_context_from_previous_chunk(previous_chunk, num_lines) ==
    IF previous_chunk = <<>> THEN <<>>
    ELSE LET lines == SelectSeq(SplitLines(previous_chunk), IsNotBlank)
         IN  IF lines = <<>> THEN <<>>
             ELSE JoinNL(Slice(lines, IF Len(lines) > num_lines
                                      THEN Len(lines) - num_lines + 1 ELSE 1,
                               Len(lines)))

\* translated_chunks.append(translated_chunk) put at the front instead
prepend_chunk(done, translated_chunk) == <<translated_chunk>> \o done

\* translated_chunks.append(translated_chunk)
append_chunk(done, translated_chunk) == Append(done, translated_chunk)

\* the rewritten chunk as the loop stores it: restored with the spans of the
\* chunk when it has any (489-490)
restore_chunk(translated_chunk, chunk, all_blocks) ==
    LET blocks == chunk_blocks(chunk, all_blocks)
    IN  IF blocks # <<>> THEN restore_blocks(translated_chunk, blocks)
        ELSE translated_chunk

\* re.findall(r'<<<[A-Z_]+_\d{1,4}>{1,2}(?!>)', s) is not empty
HasBroken(s) ==
    \E i \in 1..Len(s) :
        LET k == RunEnd("kind", s, i + 3, Len(s))
            d == RunEnd("digit", s, k + 1, 4)
            e == RunEnd("closer", s, d + 1, 3)
        IN  /\ StartsAt(s, i, <<"<", "<", "<">>)
            /\ k >= i + 4 /\ s[k] = "_" /\ d >= k + 1
            /\ e - d \in {1, 2}

\* <<<[A-Z_]+_\d{4}>>> matches at i: a complete token
CompleteTokenAt(s, i) ==
    LET k == RunEnd("kind", s, i + 3, Len(s))
    IN  /\ StartsAt(s, i, <<"<", "<", "<">>)
        /\ k >= i + 4 /\ s[k] = "_"
        /\ k + 4 <= Len(s)
        /\ \A p \in (k + 1)..(k + 4) : IsDigit(s[p])
        /\ StartsAt(s, k + 5, <<">", ">", ">">>)

\* len(re.findall(r'<<<[A-Z_]+_\d{4}>>>', s)): matches cannot overlap
TokenCount(s) == Cardinality({i \in 1..Len(s) : CompleteTokenAt(s, i)})

\* re.findall(r'<<<[A-Z_]+_\d{4}>>>', s) is not empty
HasRemaining(s) == \E i \in 1..Len(s) : CompleteTokenAt(s, i)

\* the small-document path after the service has answered (425-433)
finish_small(translated, all_blocks) ==
    LET restored_text == restore_blocks(translated, all_blocks)
    IN  IF HasBroken(restored_text)
        THEN fix_broken_placeholders(restored_text, all_blocks)
        ELSE restored_text

\* the chunked path after the join (498-509)
finish_chunked(joined, all_blocks) ==
    LET repaired == IF HasBroken(joined)
                    THEN fix_broken_placeholders(joined, all_blocks)
                    ELSE joined
    IN  IF HasRemaining(repaired) THEN restore_blocks(repaired, all_blocks)
        ELSE repaired

-----------------------------------------------------------------------------
(* validate_translation_completeness *)

\* s.split(sep) from position i on, sep non-empty
RECURSIVE SplitOnFrom(_, _, _)
SplitOnFrom(s, sep, i) ==
    LET at == Find(s, i, sep)
    IN  IF at = 0 THEN <<Slice(s, i, Len(s))>>
        ELSE <<Slice(s, i, at - 1)>> \o SplitOnFrom(s, sep, at + Len(sep))

\* [p for p in s.split('\n\n') if p.strip()]
Paragraphs(s) == SelectSeq(SplitOnFrom(s, <<NL, NL>>, 1), IsNotBlank)

\* [l for l in s.split('\n') if l.strip()]
ContentLines(s) == SelectSeq(SplitLines(s), IsNotBlank)

Abs(n) == IF n < 0 THEN 0 - n ELSE n

\* a / b as Python divides: ZeroDivisionError when b is 0
Quotient(a, b) == [raised |-> b = 0, num |-> a, den |-> b]

\* a ratio computed whatever the length of the original
length_ratio_unguarded(original, translated) ==
    Quotient(Len(translated), Len(original))

\* length_ratio = len(translated) / len(original) if len(original) > 0 else 0
length_ratio(original, translated) ==
    IF Len(original) > 0 THEN Quotient(Len(translated), Len(original))
    ELSE [raised |-> FALSE, num |-> 0, den |-> 1]

\* the issue a pair of counts adds to result["issues"] (256-258, 264-266,
\* 274-276)
count_issue(name, o, t) == IF o # t THEN <<name>> ELSE <<>>

\* diff > len(original_...) * 0.2 (0.15), percent being 20 (15); the
\* floating-point product never falls below the exact one for these factors
count_invalid(o, t, percent) == o # t /\ 100 * Abs(o - t) > o * percent

\* length_ratio < 0.3 or length_ratio > 1.5
ratio_invalid(r) == 10 * r.num < 3 * r.den \/ 2 * r.num > 3 * r.den

\* the result dictionary, from the placeholder counts po, pt, the paragraph
\* counts ao, at, the line counts lo, lt and the length ratio r
ValidationResult(po, pt, ao, at, lo, lt, r) ==
    [raised |-> r.raised,
     is_valid |-> ~(\/ po # pt
                    \/ count_invalid(ao, at, 20)
                    \/ count_invalid(lo, lt, 15)
                    \/ ratio_invalid(r)),
     issues |-> count_issue("placeholders", po, pt)
                \o count_issue("paragraphs", ao, at)
                \o count_issue("lines", lo, lt)
                \o (IF ratio_invalid(r) THEN <<"length">> ELSE <<>>)]

\* validate_translation_completeness(original, translated)
validate_translation_completeness(original, translated) ==
    ValidationResult(TokenCount(original), TokenCount(translated),
                     Len(Paragraphs(original)), Len(Paragraphs(translated)),
                     Len(ContentLines(original)), Len(ContentLines(translated)),
                     length_ratio(original, translated))

-----------------------------------------------------------------------------
(* Protection of one text: protect_blocks, then restore_blocks on its result; *)
(* or the inline-math scanner alone on the raw text.                          *)

\* longest text of ProtectInputs, in segments
MaxSegs == 4

\* the pieces the input texts are built from: the delimiters of the six kinds
\* of span, the characters the scanner treats specially, and ordinary text
Segments ==
    {<<"a">>, <<NL>>, <<DQ>>, <<BT>>, <<BS>>, <<"{">>, <<"}">>, <<"<">>, <<">">>,
     <<DQ, DQ>>, <<BT, BT, BT>>, <<"!", "[", "a", "]", "(", "b", ")">>}

\* the example of the brace-depth scanning property:
\*   The loss is $f(\{x_1,x_2\})$ converges.
LossFormula ==
    <<DQ, "f", "(", BS, "{", "x", "_", "1", ",", "x", "_", "2", BS, "}", ")", DQ>>

LossInput ==
    <<"T", "h", "e", " ", "l", "o", "s", "s", " ", "i", "s", " ">>
    \o LossFormula
    \o <<" ", "c", "o", "n", "v", "e", "r", "g", "e", "s", ".">>

RECURSIVE TextsOf(_)
TextsOf(n) ==
    IF n = 0 THEN {<<>>}
    ELSE LET shorter == TextsOf(n - 1)
         IN  shorter \cup {t \o g : t \in shorter, g \in Segments}

ProtectInputs == TextsOf(MaxSegs) \cup {LossInput}

InitProtect ==
    /\ pc = "input"
    /\ text \in ProtectInputs
    /\ protected_text = <<>>
    /\ all_protected_blocks = <<>>
    /\ restored = <<>>
    /\ PipeIdle
    /\ RetryIdle
    /\ ToolIdle

\* protected_text, blocks = self.protect_blocks(text)
Protect ==
    /\ pc = "input"
    /\ \E r \in {protect_blocks(text)} :
           /\ protected_text' = r.out
           /\ all_protected_blocks' = r.blocks
    /\ pc' = "protected"
    /\ UNCHANGED <<text, restored, pipeVars,
                   fileVars, retryVars,
                   toolVars>>

\* self.restore_blocks(protected_text, blocks)
Restore ==
    /\ pc = "protected"
    /\ restored' = restore_blocks(protected_text, all_protected_blocks)
    /\ pc' = "restored"
    /\ UNCHANGED <<text, protected_text, all_protected_blocks, pipeVars,
                   fileVars, retryVars,
                   toolVars>>

\* self.protect_inline_math_formulas(text, []) on the raw text
Scan ==
    /\ pc = "input"
    /\ \E r \in {protect_inline_math_formulas(text, <<>>)} :
           /\ protected_text' = r.out
           /\ all_protected_blocks' = r.blocks
    /\ pc' = "scanned"
    /\ UNCHANGED <<text, restored, pipeVars,
                   fileVars, retryVars,
                   toolVars>>

NextProtect == Protect \/ Restore \/ Scan

SpecProtect == InitProtect /\ [][NextProtect]_vars

-----------------------------------------------------------------------------
(* Properties of protection *)

Range(q) == {q[k] : k \in 1..Len(q)}

\* the spans of one kind, in the order of the list
SpansOf(blocks, block_type) ==
    {k \in 1..Len(blocks) : blocks[k].block_type = block_type}

\* the place of a kind in the order of the six passes
PassOf(block_type) ==
    CASE block_type = "code_block" -> 1
      [] block_type = "inline_code" -> 2
      [] block_type = "math_block" -> 3
      [] block_type = "inline_math" -> 4
      [] block_type = "image" -> 5
      [] block_type = "html" -> 6

\* the first four characters of a placeholder: its opening delimiter and the
\* first letter of its kind
TokenHead(placeholder) == SubSeq(placeholder, 1, 4)

\* C1: round-trip protection: restoring the protected text with the spans of
\* the same protect_blocks call gives back the text.
C1_RoundTrip == pc = "restored" => restored = text

\* C2: the spans are recorded in the order of the six passes, and the original
\* of every span is a piece of the raw input that holds no placeholder, and no
\* head of a placeholder, written by an earlier pass.
C2_NoRematch ==
    pc = "protected" =>
        /\ \A i, j \in 1..Len(all_protected_blocks) :
              i < j => PassOf(all_protected_blocks[i].block_type)
                       <= PassOf(all_protected_blocks[j].block_type)
        /\ \A j \in 1..Len(all_protected_blocks) :
              /\ Contains(text, all_protected_blocks[j].original)
              /\ \A i \in 1..(j - 1) :
                    ~Contains(all_protected_blocks[j].original,
                              TokenHead(all_protected_blocks[i].placeholder))

\* C4: token uniqueness: no two spans of one protect_blocks call have the same
\* placeholder.
C4_TokenUnique ==
    pc = "protected" =>
        \A i, j \in 1..Len(all_protected_blocks) :
            i # j => all_protected_blocks[i].placeholder
                     # all_protected_blocks[j].placeholder

\* the digits of a placeholder: its four characters before the closing delimiter
IndexDigits(placeholder) ==
    SubSeq(placeholder, Len(placeholder) - 6, Len(placeholder) - 3)

\* C4 witness: an inline-math span and a span of another kind carry the same
\* number, each from its own counter.
C4_Witness ==
    /\ pc = "protected"
    /\ \E i, j \in 1..Len(all_protected_blocks) :
          /\ all_protected_blocks[i].block_type = "inline_math"
          /\ all_protected_blocks[j].block_type # "inline_math"
          /\ IndexDigits(all_protected_blocks[i].placeholder)
             = IndexDigits(all_protected_blocks[j].placeholder)

\* number of backslashes that immediately precede position p of f
RECURSIVE BackslashesBefore(_, _)
BackslashesBefore(f, p) ==
    IF p <= 1 \/ f[p - 1] # BS THEN 0 ELSE 1 + BackslashesBefore(f, p - 1)

\* position p of f is not escaped: an even number of backslashes precedes it
Unescaped(f, p) == BackslashesBefore(f, p) % 2 = 0

\* opening minus closing braces among the unescaped characters of f[a..b]
NetBraces(f, a, b) ==
    Cardinality({p \in a..b : f[p] = "{" /\ Unescaped(f, p)})
    - Cardinality({p \in a..b : f[p] = "}" /\ Unescaped(f, p)})

\* a formula closed by a dollar that is unescaped and at brace depth zero
WellClosed(f) ==
    /\ Len(f) >= 2
    /\ f[1] = DQ
    /\ f[Len(f)] = DQ
    /\ Unescaped(SubSeq(f, 2, Len(f)), Len(f) - 1)
    /\ NetBraces(SubSeq(f, 2, Len(f)), 1, Len(f) - 2) = 0

\* C6: every inline-math span ends at a dollar that is not escaped and is at
\* brace depth zero; on LossInput the scanner records exactly one span, whose
\* content is LossFormula.
C6_BraceDepthScan ==
    pc \in {"scanned", "protected"} =>
        /\ \A k \in SpansOf(all_protected_blocks, "inline_math") :
              WellClosed(all_protected_blocks[k].original)
        /\ text = LossInput =>
              /\ Cardinality(SpansOf(all_protected_blocks, "inline_math")) = 1
              /\ \A k \in SpansOf(all_protected_blocks, "inline_math") :
                    all_protected_blocks[k].original = LossFormula

C6_Witness ==
    /\ pc = "scanned"
    /\ text = LossInput
    /\ all_protected_blocks
       = <<ProtectedBlock(Placeholder(KIND_INLINE_MATH, 0), LossFormula,
                          "inline_math")>>

\* f[d] is a dollar that opens a formula which no later dollar closes: every
\* later dollar is escaped or inside braces
Unclosed(f, d) ==
    /\ f[d] = DQ
    /\ ~(d + 1 <= Len(f) /\ f[d + 1] = DQ)
    /\ \A p \in (d + 1)..Len(f) :
          f[p] = DQ =>
              \/ ~Unescaped(SubSeq(f, d + 1, Len(f)), p - d)
              \/ NetBraces(SubSeq(f, d + 1, Len(f)), 1, p - d - 1) # 0

\* the first dollar of the text is at d
FirstDollar(f, d) == f[d] = DQ /\ \A p \in 1..(d - 1) : f[p] # DQ

\* C7: the scanner loses nothing: putting the originals back in its output
\* gives its input, for the raw text as for the text that the first three
\* passes hand to it; and when the first dollar of the text opens a formula
\* that is never closed, no span is recorded and the output is the input.
C7_UnclosedKept ==
    /\ pc = "scanned" =>
          /\ restore_blocks(protected_text, all_protected_blocks) = text
          /\ \A d \in 1..Len(text) :
                FirstDollar(text, d) /\ Unclosed(text, d) =>
                    /\ all_protected_blocks = <<>>
                    /\ protected_text = text
    /\ pc = "protected" =>
          LET before == BeforeInlineMath(text)
              after == protect_inline_math(before)
          IN  restore_blocks(after.out,
                             SubSeq(after.blocks, Len(before.blocks) + 1,
                                    Len(after.blocks)))
              = before.out

\* C7 witness: a dollar, then an opening brace, then a dollar inside the
\* braces: the formula is never closed and the text is kept as it is.
C7_Witness ==
    /\ pc = "scanned"
    /\ \E d \in 1..Len(text) :
          /\ FirstDollar(text, d)
          /\ Unclosed(text, d)
          /\ \E p \in (d + 1)..Len(text) : text[p] = DQ
    /\ protected_text = text
    /\ all_protected_blocks = <<>>

-----------------------------------------------------------------------------
(* Repair of one rewritten text: fix_broken_placeholders(text, all_blocks) *)

TOKEN_OPEN == <<"<", "<", "<">>

\* kind, digits and number of closing characters of the tokens of the texts
RepairKinds == {KIND_INLINE_MATH, KIND_HTML}
RepairDigits == {<<"0", "0", "0", "5">>, <<"5">>, <<"0", "0", "0", "1">>}
RepairClosers == {<<>>, <<">">>, <<">", ">">>, <<">", ">", ">">>}

\* f"<<<{kind}_{digits}" followed by the closing characters
TokenText(kind, digits, closers) == TOKEN_OPEN \o kind \o <<"_">> \o digits \o closers

RepairTokens ==
    {TokenText(k, d, c) : k \in RepairKinds, d \in RepairDigits, c \in RepairClosers}

RepairBefore == {<<>>, <<"a">>, <<"<">>, <<"a", ">", " ">>}
RepairAfter ==
    {<<>>, <<"a">>, <<">">>, <<" ", "b">>,
     <<" ">> \o TokenText(KIND_INLINE_MATH, <<"0", "0", "0", "5">>, <<">">>)}

RepairTexts ==
    {b \o t \o a : b \in RepairBefore, t \in RepairTokens, a \in RepairAfter}

SpanMath5 == ProtectedBlock(Placeholder(KIND_INLINE_MATH, 5), <<DQ, "q", DQ>>,
                            "inline_math")
SpanHtml1 == ProtectedBlock(Placeholder(KIND_HTML, 1), <<"<", "z", ">">>, "html")
SpanCode0 == ProtectedBlock(Placeholder(KIND_CODE_BLOCK, 0),
                            <<BT, BT, BT, "c", BT, BT, BT>>, "code_block")

RepairSpanLists ==
    {<<>>, <<SpanMath5>>, <<SpanCode0, SpanHtml1>>, <<SpanCode0, SpanHtml1, SpanMath5>>}

InitRepair ==
    /\ pc = "rewritten"
    /\ text \in RepairTexts
    /\ all_protected_blocks \in RepairSpanLists
    /\ protected_text = <<>>
    /\ restored = <<>>
    /\ PipeIdle
    /\ RetryIdle
    /\ ToolIdle

\* self.fix_broken_placeholders(text, all_blocks)
Repair ==
    /\ pc = "rewritten"
    /\ restored' = fix_broken_placeholders(text, all_protected_blocks)
    /\ pc' = "repaired"
    /\ UNCHANGED <<text, protected_text, all_protected_blocks, pipeVars,
                   fileVars, retryVars,
                   toolVars>>

NextRepair == Repair

SpecRepair == InitRepair /\ [][NextRepair]_vars

\* the token opening does not occur in q
NoTokenOpen(q) == ~Contains(q, TOKEN_OPEN)

\* C8: a token that has lost one or two of its closing characters, whose span
\* is in the list, is replaced by the original of that span: the text before it
\* is kept, the original follows, and when nothing after it opens a token the
\* rest of the text follows unchanged.
C8_RepairRecovers ==
    pc = "repaired" =>
        \A k \in 1..Len(all_protected_blocks), lost \in {1, 2}, p \in 1..Len(text) :
            LET placeholder == all_protected_blocks[k].placeholder
                tok == SubSeq(placeholder, 1, Len(placeholder) - lost)
                before == Slice(text, 1, p - 1)
                after == Slice(text, p + Len(tok), Len(text))
            IN  (/\ StartsAt(text, p, tok)
                 /\ ~StartsAt(after, 1, <<">">>)
                 /\ NoTokenOpen(before))
                => /\ StartsAt(restored, 1,
                               before \o all_protected_blocks[k].original)
                   /\ NoTokenOpen(after)
                      => restored = before \o all_protected_blocks[k].original
                                    \o after

\* C8 witness: the text a<<<INLINE_MATH_0005> with the span of index 5 in the
\* list becomes a$q$.
C8_Witness ==
    /\ pc = "repaired"
    /\ text = <<"a">> \o TokenText(KIND_INLINE_MATH, <<"0", "0", "0", "5">>, <<">">>)
    /\ SpanMath5 \in Range(all_protected_blocks)
    /\ restored = <<"a", DQ, "q", DQ>>

\* C9: a malformed token whose kind and index match no span of the list stays
\* in the text as it was, with the text before it.
C9_UnmatchedKept ==
    pc = "repaired" =>
        \A kind \in RepairKinds, digits \in RepairDigits,
           closers \in RepairClosers \ {<<">", ">", ">">>}, p \in 1..Len(text) :
            LET tok == TokenText(kind, digits, closers)
                before == Slice(text, 1, p - 1)
                after == Slice(text, p + Len(tok), Len(text))
            IN  (/\ StartsAt(text, p, tok)
                 /\ NoTokenOpen(before)
                 /\ after # <<>> => ~IsDigit(after[1])
                 /\ \A k \in 1..Len(all_protected_blocks) :
                       all_protected_blocks[k].placeholder
                       # Placeholder(kind, ParseInt(digits)))
                => StartsAt(restored, 1, before \o tok)

\* C9 witness: <<<HTML_0001> stays when the only span of the list is that of
\* INLINE_MATH_0005.
C9_Witness ==
    /\ pc = "repaired"
    /\ all_protected_blocks = <<SpanMath5>>
    /\ text = TokenText(KIND_HTML, <<"0", "0", "0", "1">>, <<">">>) \o <<"a">>
    /\ restored = text


\* a token opens at i that is not complete: the repair pattern matches there
\* and the complete-token pattern does not
MalformedAt(s, i) == BrokenMatch(s, i).found /\ ~CompleteTokenAt(s, i)

\* C25: the repair changes only malformed tokens: a text without a
\* malformed token comes back unchanged, and a complete token, with the
\* text before it, is kept as it is whatever follows.
C25_RepairFrame ==
    pc = "repaired" =>
        /\ (\A i \in 1..Len(text) : ~MalformedAt(text, i)) => restored = text
        /\ \A p \in 1..Len(text) :
               (CompleteTokenAt(text, p) /\ NoTokenOpen(Slice(text, 1, p - 1)))
                   => \E e \in {Find(text, p, <<">", ">", ">">>) + 2} :
                          StartsAt(restored, 1, Slice(text, 1, e))

-----------------------------------------------------------------------------
(* One run of translate_large_document. The service is the environment: it   *)
(* answers a request with the text unchanged, wrapped in a markdown fence,   *)
(* with the closing of its first token shortened to one character, or with   *)
(* another text.                                                             *)

\* longest document, in lines
MaxLines == 3

LINE_BLANK == <<>>
LINE_PLAIN == <<"a", " ", "b">>
LINE_HEADING == <<"#", " ", "h">>
LINE_MATH == <<DQ, "x", DQ>>
\* a line whose protected form is longer than chunk_size_limit
LINE_LONG == <<DQ, "x", DQ, " ", DQ, "y", DQ>>

LineKinds == {LINE_BLANK, LINE_PLAIN, LINE_HEADING, LINE_MATH, LINE_LONG}

\* a document whose first chunk has four non-blank lines and a blank one
DOC_CONTEXT ==
    JoinNL(<<LINE_PLAIN, LINE_HEADING, LINE_BLANK, LINE_MATH, LINE_PLAIN, LINE_LONG>>)

\* the documents of at most n lines
DocumentsOf(n) ==
    {JoinNL(lines) : lines \in UNION {[1..m -> LineKinds] : m \in 1..n}}

Documents == DocumentsOf(MaxLines) \cup {DOC_CONTEXT}

AnswerKinds == {"same", "fenced", "short", "other"}

\* the answer of the service to the text of a request
Answer(kind, s) ==
    LET g == Find(s, 1, <<">", ">", ">">>)
        r == RunEnd("closer", s, g, Len(s))
    IN  CASE kind = "same" -> s
          [] kind = "fenced" -> FENCE_MARKDOWN \o <<NL>> \o s \o <<NL>> \o FENCE
          [] kind = "short" ->
                IF g = 0 THEN s
                ELSE Slice(s, 1, g) \o Slice(s, r + 1, Len(s))
          [] kind = "other" -> <<"z">>

\* a request that repeats its text as its context
RequestWithOwnContext(s, context) == [text |-> s, context |-> s]

\* the text and the context handed to translate_text
Request(s, context) == [text |-> s, context |-> context]

Init ==
    /\ pc = "start"
    /\ text \in Documents
    /\ protected_text = <<>>
    /\ all_protected_blocks = <<>>
    /\ restored = <<>>
    /\ PipeIdle
    /\ RetryIdle
    /\ ToolIdle

\* lines 411-423, a document under the limit whose protected text is not
\* blank: the whole protected text is sent, with no context
StartSmall ==
    /\ pc = "start"
    /\ \E r \in {protect_blocks(text)} :
           /\ Len(r.out) < small_doc_limit
           /\ ~IsBlank(r.out)
           /\ protected_text' = r.out
           /\ all_protected_blocks' = r.blocks
           /\ requests' = Append(requests, Request(r.out, <<>>))
    /\ pc' = "small_call"
    /\ UNCHANGED <<text, restored, chunks, chunk_index, translated_chunks,
                   full_translated, final_text, replies, verbatim,
                   fileVars, retryVars,
                   toolVars>>

\* a blank protected text sent to the service like any other
StartSmallBlankSent ==
    /\ pc = "start"
    /\ \E r \in {protect_blocks(text)} :
           /\ Len(r.out) < small_doc_limit
           /\ IsBlank(r.out)
           /\ protected_text' = r.out
           /\ all_protected_blocks' = r.blocks
           /\ requests' = Append(requests, Request(r.out, <<>>))
    /\ pc' = "small_call"
    /\ UNCHANGED <<text, restored, chunks, chunk_index, translated_chunks,
                   full_translated, final_text, replies, verbatim,
                   fileVars, retryVars,
                   toolVars>>

\* lines 411-433, a document under the limit whose protected text is blank:
\* translate_text returns it without a request (339-340)
StartSmallBlank ==
    /\ pc = "start"
    /\ \E r \in {protect_blocks(text)} :
           /\ Len(r.out) < small_doc_limit
           /\ IsBlank(r.out)
           /\ protected_text' = r.out
           /\ all_protected_blocks' = r.blocks
           /\ final_text' = finish_small(r.out, r.blocks)
    /\ pc' = "done"
    /\ UNCHANGED <<text, restored, chunks, chunk_index, translated_chunks,
                   full_translated, requests, replies, verbatim,
                   fileVars, retryVars,
                   toolVars>>

\* the service answers the request of the small-document path (378-384,
\* 425-433)
SmallReply ==
    /\ pc = "small_call"
    /\ \E kind \in AnswerKinds :
        LET answer == Answer(kind, protected_text)
        IN  /\ final_text' = finish_small(clean_answer(answer), all_protected_blocks)
            /\ verbatim' = (verbatim /\ answer = protected_text)
    /\ pc' = "done"
    /\ UNCHANGED <<text, protected_text, all_protected_blocks, restored, chunks,
                   chunk_index, translated_chunks, full_translated, requests,
                   replies,
                   fileVars, retryVars,
                   toolVars>>

\* lines 411-467, a document at or over the limit: the chunk list is built
StartChunked ==
    /\ pc = "start"
    /\ \E r \in {protect_blocks(text)} :
           /\ Len(r.out) >= small_doc_limit
           /\ protected_text' = r.out
           /\ all_protected_blocks' = r.blocks
           /\ chunks' = split_chunks(SplitLines(r.out))
    /\ chunk_index' = 1
    /\ pc' = "loop"
    /\ UNCHANGED <<text, restored, translated_chunks, full_translated,
                   final_text, requests, replies, verbatim,
                   fileVars, retryVars,
                   toolVars>>

\* a context taken from the rewritten previous chunk
ContextOfRewritten(k) ==
    IF k > 1 THEN get_context_from_previous_chunk(translated_chunks[k - 1], 3)
    ELSE <<>>

\* the context of the chunk at ordinal k (477-479)
ContextOf(k) ==
    IF k > 1 THEN get_context_from_previous_chunk(chunks[k - 1], 3) ELSE <<>>

\* one turn of the loop up to the request (469-486) for a chunk that is not
\* blank
SendChunk ==
    /\ pc = "loop"
    /\ chunk_index <= Len(chunks)
    /\ ~IsBlank(chunks[chunk_index])
    /\ requests' = Append(requests,
                          Request(chunks[chunk_index], ContextOf(chunk_index)))
    /\ pc' = "chunk_call"
    /\ UNCHANGED <<text, protected_text, all_protected_blocks, restored, chunks,
                   chunk_index, translated_chunks, full_translated, final_text,
                   replies, verbatim,
                   fileVars, retryVars,
                   toolVars>>

\* one turn of the loop for a blank chunk: translate_text returns it without
\* a request (339-340, 486-492)
SkipBlankChunk ==
    /\ pc = "loop"
    /\ chunk_index <= Len(chunks)
    /\ IsBlank(chunks[chunk_index])
    /\ LET translated_chunk ==
               restore_chunk(chunks[chunk_index], chunks[chunk_index],
                             all_protected_blocks)
       IN  /\ translated_chunks' = append_chunk(translated_chunks, translated_chunk)
           /\ replies' = replies \cup {<<chunk_index, translated_chunk>>}
    /\ chunk_index' = chunk_index + 1
    /\ UNCHANGED <<pc, text, protected_text, all_protected_blocks, restored,
                   chunks, full_translated, final_text, requests, verbatim,
                   fileVars, retryVars,
                   toolVars>>

\* an answer after which the loop stays at the same chunk
ChunkReplyAgain ==
    /\ pc = "chunk_call"
    /\ pc' = "loop"
    /\ UNCHANGED <<text, protected_text, all_protected_blocks, restored,
                   pipeVars, fileVars, retryVars,
                   toolVars>>

\* the service answers the request of a chunk; the chunk is cleaned, restored
\* with its own spans and stored (378-384, 489-492)
ChunkReply ==
    /\ pc = "chunk_call"
    /\ \E kind \in AnswerKinds :
        LET answer == Answer(kind, chunks[chunk_index])
            translated_chunk ==
                restore_chunk(clean_answer(answer), chunks[chunk_index],
                              all_protected_blocks)
        IN  /\ translated_chunks' = append_chunk(translated_chunks, translated_chunk)
            /\ replies' = replies \cup {<<chunk_index, translated_chunk>>}
            /\ verbatim' = (verbatim /\ answer = chunks[chunk_index])
    /\ chunk_index' = chunk_index + 1
    /\ pc' = "loop"
    /\ UNCHANGED <<text, protected_text, all_protected_blocks, restored, chunks,
                   full_translated, final_text, requests,
                   fileVars, retryVars,
                   toolVars>>

\* after the loop: join, repair of broken tokens, restore of remaining ones
\* (495-509)
Finish ==
    /\ pc = "loop"
    /\ chunk_index > Len(chunks)
    /\ full_translated' = JoinNL(translated_chunks)
    /\ final_text' = finish_chunked(JoinNL(translated_chunks), all_protected_blocks)
    /\ pc' = "done"
    /\ UNCHANGED <<text, protected_text, all_protected_blocks, restored, chunks,
                   chunk_index, translated_chunks, requests, replies, verbatim,
                   fileVars, retryVars,
                   toolVars>>

Next ==
    \/ StartSmall
    \/ StartSmallBlank
    \/ SmallReply
    \/ StartChunked
    \/ SendChunk
    \/ SkipBlankChunk
    \/ ChunkReply
    \/ Finish

Spec == Init /\ [][Next]_vars

-----------------------------------------------------------------------------
(* Properties of one run of translate_large_document *)

\* C3: when the service has returned every request unchanged, the document
\* translate_large_document returns contains no placeholder of the run, on the
\* small-document path and on the chunked path.
C3_NoLeak ==
    (pc = "done" /\ verbatim) =>
        \A k \in 1..Len(all_protected_blocks) :
            ~Contains(final_text, all_protected_blocks[k].placeholder)

RECURSIVE TokensIn(_)
TokensIn(parts) ==
    IF parts = <<>> THEN 0 ELSE TokenCount(Head(parts)) + TokensIn(Tail(parts))

\* C5: no-split invariant of the line-based chunker: in every chunk, a token
\* that starts in the chunk is complete in the chunk, and the chunks hold as
\* many complete tokens as the protected text, so none is divided between two
\* chunks.
C5_NoSplit ==
    chunks # <<>> =>
        /\ \A k \in 1..Len(chunks) : \A i \in 1..Len(chunks[k]) :
               StartsAt(chunks[k], i, TOKEN_OPEN) => CompleteTokenAt(chunks[k], i)
        /\ TokensIn(chunks) = TokenCount(protected_text)

\* a document cut into several chunks, each of them holding a token
C5_Witness ==
    /\ pc = "loop"
    /\ Len(chunks) >= 2
    /\ \A k \in 1..Len(chunks) : TokenCount(chunks[k]) >= 1
    /\ Len(protected_text) > chunk_size_limit

\* the rewritten chunk recorded for the chunk at ordinal k
ReplyOf(k) == (CHOOSE r \in replies : r[1] = k)[2]

\* C10: chunk join order: the joined output is the rewritten chunks in the order
\* of their ordinals, whatever the service has answered for each chunk.
C10_JoinOrder ==
    (pc = "done" /\ chunks # <<>>) =>
        /\ \A k \in 1..Len(chunks) : \E r \in replies : r[1] = k
        /\ full_translated = JoinNL([k \in 1..Len(chunks) |-> ReplyOf(k)])

\* a document of several chunks whose rewritten chunks differ, joined
C10_Witness ==
    /\ pc = "done"
    /\ Len(chunks) >= 3
    /\ ~verbatim
    /\ \A j, k \in 1..Len(chunks) : j # k => ReplyOf(j) # ReplyOf(k)
    /\ full_translated = JoinNL(translated_chunks)

\* C11: small-document shortcut: a protected text under the small-document
\* limit is not chunked; at most one request is made for it, over the whole
\* protected text and with an empty context.
C11_SmallShortcut ==
    (pc # "start" /\ Len(protected_text) < small_doc_limit) =>
        /\ chunks = <<>>
        /\ Len(requests) <= 1
        /\ \A k \in 1..Len(requests) :
               /\ requests[k].text = protected_text
               /\ requests[k].context = <<>>

\* a small document of several lines with a token has been sent and answered
C11_Witness ==
    /\ pc = "done"
    /\ Len(protected_text) < small_doc_limit
    /\ Len(requests) = 1
    /\ Contains(protected_text, <<NL>>)
    /\ TokenCount(protected_text) >= 1

\* the non-blank lines of s, in their order
NonBlankLines(s) == SelectSeq(SplitLines(s), IsNotBlank)

\* C12: the context of the request for a chunk is empty for the first chunk and
\* when the chunk before it has no non-blank line; otherwise its lines are the
\* last three (or all, when fewer) non-blank lines of the protected text of the
\* chunk before it, in their order, whatever the service has answered.
C12_Context ==
    pc = "chunk_call" =>
        LET context == requests[Len(requests)].context
            lines == IF chunk_index > 1 THEN NonBlankLines(chunks[chunk_index - 1])
                     ELSE <<>>
            n == Len(lines)
            m == IF n > 3 THEN 3 ELSE n
        IN  /\ requests[Len(requests)].text = chunks[chunk_index]
            /\ IF m = 0 THEN context = <<>>
               ELSE /\ Len(SplitLines(context)) = m
                    /\ \A j \in 1..m : SplitLines(context)[j] = lines[n - m + j]

\* the request for a chunk whose predecessor has more than three non-blank
\* lines and a blank one, and was rewritten to something else
C12_Witness ==
    /\ pc = "chunk_call"
    /\ chunk_index > 1
    /\ Len(NonBlankLines(chunks[chunk_index - 1])) > 3
    /\ Len(SplitLines(chunks[chunk_index - 1]))
           > Len(NonBlankLines(chunks[chunk_index - 1]))
    /\ translated_chunks[chunk_index - 1] # chunks[chunk_index - 1]
    /\ requests[Len(requests)].context # <<>>

\* the chunk list the loop of 439-462 makes of the protected text of t
ChunkListOf(t) == split_chunks(SplitLines(protect_blocks(t).out))

\* C22 as stated: the chunking loop applied to the empty protected text
\* produces an empty chunk list, and no request is made for the empty
\* document.
C22_EmptyZeroChunks ==
    text = <<>> =>
        /\ ChunkListOf(text) = <<>>
        /\ requests = <<>>

\* C22 as it holds: the empty document takes the small-document path, no
\* chunk list is built, no request is made and the empty document is
\* returned; the chunking loop itself makes one chunk, the empty text, of
\* the empty protected text.
C22_EmptyNoRequest ==
    text = <<>> =>
        /\ pc \in {"start", "done"}
        /\ chunks = <<>>
        /\ requests = <<>>
        /\ pc = "done" => protected_text = <<>> /\ final_text = <<>>
        /\ ChunkListOf(text) = << <<>> >>

\* the run on the empty document, finished
C22_Witness ==
    /\ text = <<>>
    /\ pc = "done"
    /\ requests = <<>>

\* what the chunked path makes of an answer when the protected text is its
\* only chunk: restore with the spans of the chunk, join, repair, restore of
\* what remains (489-509)
SingleChunkResult(answer) ==
    finish_chunked(
        JoinNL(<<restore_chunk(clean_answer(answer), protected_text,
                               all_protected_blocks)>>),
        all_protected_blocks)

\* C24: the small-document path returns what the chunked path returns when
\* run with the protected text as a single chunk and no context, for the
\* same input and the same answer of the service.
C24_SmallAsSingleChunk ==
    (pc = "done" /\ chunks = <<>> /\ Len(requests) = 1) =>
        \A kind \in AnswerKinds :
            final_text = finish_small(clean_answer(Answer(kind, protected_text)),
                                      all_protected_blocks)
                => final_text = SingleChunkResult(Answer(kind, protected_text))

\* the texts of the requests made so far, in order
RequestTexts == [k \in 1..Len(requests) |-> requests[k].text]

\* the chunks the loop has reached so far: the one whose request is under way
\* included
ChunksReached ==
    SubSeq(chunks, 1, IF pc = "chunk_call" \/ errors = <<"chunk_call">>
                      THEN chunk_index ELSE chunk_index - 1)

\* C18 as stated: on the chunked path the service is invoked exactly once per
\* chunk, in ordinal order, one at a time, the request for a chunk being
\* issued only after that for the chunk before it has returned.
C18_OncePerChunk ==
    chunks # <<>> =>
        /\ RequestTexts = ChunksReached
        /\ Len(translated_chunks) = chunk_index - 1

\* C18 as it holds: exactly once per chunk that is not blank, in ordinal
\* order, one at a time; a chunk of whitespace only is not sent at all.
C18_OncePerNonBlankChunk ==
    chunks # <<>> =>
        /\ RequestTexts = SelectSeq(ChunksReached, IsNotBlank)
        /\ Len(translated_chunks) = chunk_index - 1
        /\ pc = "chunk_call" =>
               /\ requests[Len(requests)].text = chunks[chunk_index]
               /\ \A j \in 1..(chunk_index - 1) :
                      \E reply \in replies : reply[1] = j

\* a finished run of three chunks, the middle one blank: two requests
C18_Witness ==
    /\ pc = "done"
    /\ Len(chunks) = 3
    /\ IsBlank(chunks[2])
    /\ RequestTexts = <<chunks[1], chunks[3]>>

-----------------------------------------------------------------------------
(* The chunker alone: lines 439-462 of translate_large_document applied to   *)
(* a protected text that has reached the chunked path. The texts are made    *)
(* of lines without protected spans, which protection leaves as they are.    *)

\* longest text handed to the chunker, in lines
MaxChunkLines == 4

CHUNK_LINE_BLANK == <<>>
CHUNK_LINE_HEADING == <<"#", " ", "h">>
CHUNK_LINE_RULE == <<"-", "-", "-">>
CHUNK_LINE_SHORT == <<"a", " ", "b">>
\* 12 and 15 characters: 15 + 15 and 15 + 12 + 3 meet the limit exactly
CHUNK_LINE_TWELVE == [k \in 1..12 |-> "c"]
CHUNK_LINE_FIFTEEN == [k \in 1..15 |-> "d"]
\* one character more than chunk_size_limit
CHUNK_LINE_OVER == [k \in 1..(chunk_size_limit + 1) |-> "e"]

ChunkLineKinds ==
    {CHUNK_LINE_BLANK, CHUNK_LINE_HEADING, CHUNK_LINE_RULE, CHUNK_LINE_SHORT,
     CHUNK_LINE_TWELVE, CHUNK_LINE_FIFTEEN, CHUNK_LINE_OVER}

\* the texts of at most MaxChunkLines lines that take the chunked path
ChunkTexts ==
    {t \in {JoinNL(lines) :
               lines \in UNION {[1..m -> ChunkLineKinds] : m \in 1..MaxChunkLines}} :
        Len(t) >= small_doc_limit}

InitChunk ==
    /\ pc = "chunking"
    /\ text = <<>>
    /\ protected_text \in ChunkTexts
    /\ all_protected_blocks = <<>>
    /\ restored = <<>>
    /\ PipeIdle
    /\ RetryIdle
    /\ ToolIdle

\* lines 439-462: the chunk list of the protected text
Chunk ==
    /\ pc = "chunking"
    /\ chunks' = split_chunks(SplitLines(protected_text))
    /\ pc' = "chunked"
    /\ UNCHANGED <<text, protected_text, all_protected_blocks, restored,
                   chunk_index, translated_chunks, full_translated, final_text,
                   requests, replies, verbatim, fileVars, retryVars,
                   toolVars>>

NextChunk == Chunk

SpecChunk == InitChunk /\ [][NextChunk]_vars

-----------------------------------------------------------------------------
(* Properties of the chunker *)

\* the sum of the lengths of the lines of a chunk
RECURSIVE SumLen(_)
SumLen(lines) ==
    IF lines = <<>> THEN 0 ELSE Len(Head(lines)) + SumLen(Tail(lines))

\* C21: every chunk has a sum of line lengths of at most the size limit or
\* is exactly one line; a line longer than the limit is a chunk of its own,
\* merged with no neighbouring line.
C21_ChunkBound ==
    pc = "chunked" =>
        /\ \A k \in 1..Len(chunks) :
               \/ SumLen(SplitLines(chunks[k])) <= chunk_size_limit
               \/ Len(SplitLines(chunks[k])) = 1
        /\ \A j \in 1..Len(SplitLines(protected_text)) :
               Len(SplitLines(protected_text)[j]) > chunk_size_limit =>
                   \E k \in 1..Len(chunks) :
                       chunks[k] = SplitLines(protected_text)[j]

\* a chunk list with a chunk that meets the limit exactly with three lines
\* and a chunk that is one line over the limit
C21_Witness ==
    /\ pc = "chunked"
    /\ \E k \in 1..Len(chunks) :
           /\ Len(SplitLines(chunks[k])) = 3
           /\ SumLen(SplitLines(chunks[k])) = chunk_size_limit
    /\ \E k \in 1..Len(chunks) : Len(chunks[k]) > chunk_size_limit


\* the lines of the chunks, one after the other
RECURSIVE ChunkLinesOf(_)
ChunkLinesOf(cs) ==
    IF cs = <<>> THEN <<>>
    ELSE SplitLines(Head(cs)) \o ChunkLinesOf(Tail(cs))

\* C27: the chunks are consecutive runs of whole lines of the protected text
\* that leave out and repeat no line, and joining them with a newline gives
\* back the protected text.
C27_LosslessPartition ==
    pc = "chunked" =>
        /\ ChunkLinesOf(chunks) = SplitLines(protected_text)
        /\ JoinNL(chunks) = protected_text
        /\ chunks # <<>>

\* a text cut into three chunks, one of them of two lines or more
C27_Witness ==
    /\ pc = "chunked"
    /\ Len(chunks) = 3
    /\ \E k \in 1..3 : Len(SplitLines(chunks[k])) >= 2
    /\ JoinNL(chunks) = protected_text

\* the line with every character replaced by a letter: a line of the same
\* size that opens no heading and no rule, and is not blank unless empty
Neutral(line) == [k \in 1..Len(line) |-> "x"]

\* the number of lines of each chunk
LineCounts(cs) == [k \in 1..Len(cs) |-> Len(SplitLines(cs[k]))]

\* C28: a chunk ends just before the first line whose size would take the
\* chunk over the limit, whatever the line is: every chunk but the first opens
\* with a line that did not fit, every other line fitted, and the text with
\* its lines replaced by letter lines of the same sizes is cut at the same
\* places.
C28_CutBySizeOnly ==
    pc = "chunked" =>
        /\ \A k \in 2..Len(chunks) :
               SumLen(SplitLines(chunks[k - 1])) + Len(SplitLines(chunks[k])[1])
                   > chunk_size_limit
        /\ \A k \in 1..Len(chunks) : \A i \in 2..Len(SplitLines(chunks[k])) :
               SumLen(SubSeq(SplitLines(chunks[k]), 1, i)) <= chunk_size_limit
        /\ LineCounts(chunks)
               = LineCounts(split_chunks(
                     [j \in 1..Len(SplitLines(protected_text)) |->
                         Neutral(SplitLines(protected_text)[j])]))

\* a text where a heading is the line that does not fit, and then a line
\* that is neither heading, blank nor rule: a chunk opens at each
C28_Witness ==
    /\ pc = "chunked"
    /\ Len(chunks) = 3
    /\ IsBoundaryLine(SplitLines(chunks[2])[1])
    /\ ~IsBoundaryLine(SplitLines(chunks[3])[1])

-----------------------------------------------------------------------------
(* One service call: call_api of translate_md.py, _make_request of           *)
(* academic_reader.py and of fix_page.py (the three loops are the same).     *)
(* The service is the environment: an attempt ends with a content or with    *)
(* an exception.                                                             *)

\* largest max_retries given to the constructor (3 when not given)
MaxRetries == 3

Contents == {"content_a", "content_b"}

Errors == {"Timeout", "HTTPError", "KeyError"}

\* raised when the loop has not run at all
RUNTIME_ERROR == "RuntimeError"

InitRetry ==
    /\ pc = "call_api"
    /\ text = <<>>
    /\ protected_text = <<>>
    /\ all_protected_blocks = <<>>
    /\ restored = <<>>
    /\ PipeIdle
    /\ max_retries \in 0..MaxRetries
    /\ attempt = 0
    /\ outcomes = <<>>
    /\ sleeps = <<>>
    /\ returned = <<>>
    /\ raised = <<>>
    /\ ToolIdle

\* the error of the first failed attempt
first_error == IF outcomes = <<>> THEN "None" ELSE outcomes[1].value

\* last_error: None before the first failure, then the exception of the
\* latest failed attempt (a successful attempt returns at once)
last_error ==
    IF outcomes = <<>> THEN "None" ELSE outcomes[Len(outcomes)].value

\* an attempt of the loop answered with a content: the content is returned
AttemptSucceeds ==
    /\ pc = "call_api"
    /\ attempt < max_retries
    /\ \E content \in Contents :
           /\ outcomes' = Append(outcomes, [ok |-> TRUE, value |-> content])
           /\ returned' = Append(returned, content)
    /\ pc' = "returned"
    /\ UNCHANGED <<text, protected_text, all_protected_blocks, restored,
                   pipeVars, fileVars, max_retries, attempt, sleeps, raised,
                   toolVars>>

\* a failed attempt that sleeps 2 ** attempt seconds whichever turn it was
AttemptFailsSleepsAlways ==
    /\ pc = "call_api"
    /\ attempt < max_retries
    /\ \E e \in Errors :
           outcomes' = Append(outcomes, [ok |-> FALSE, value |-> e])
    /\ sleeps' = Append(sleeps, 2 ^ attempt)
    /\ attempt' = attempt + 1
    /\ UNCHANGED <<pc, text, protected_text, all_protected_blocks, restored,
                   pipeVars, fileVars, max_retries, returned, raised,
                   toolVars>>

\* an attempt of the loop ended by an exception: it is kept as last_error,
\* and the loop sleeps 2 ** attempt seconds unless this was the last turn
AttemptFails ==
    /\ pc = "call_api"
    /\ attempt < max_retries
    /\ \E e \in Errors :
           outcomes' = Append(outcomes, [ok |-> FALSE, value |-> e])
    /\ sleeps' = IF attempt < max_retries - 1
                 THEN Append(sleeps, 2 ^ attempt) ELSE sleeps
    /\ attempt' = attempt + 1
    /\ UNCHANGED <<pc, text, protected_text, all_protected_blocks, restored,
                   pipeVars, fileVars, max_retries, returned, raised,
                   toolVars>>

\* after the loop: raise last_error if last_error else RuntimeError(...)
RaiseAfterLoop ==
    /\ pc = "call_api"
    /\ attempt >= max_retries
    /\ raised' = Append(raised, IF last_error # "None" THEN last_error
                                ELSE RUNTIME_ERROR)
    /\ pc' = "raised"
    /\ UNCHANGED <<text, protected_text, all_protected_blocks, restored,
                   pipeVars, fileVars, max_retries, attempt, outcomes, sleeps,
                   returned,
                   toolVars>>

NextRetry == AttemptSucceeds \/ AttemptFails \/ RaiseAfterLoop

SpecRetry == InitRetry /\ [][NextRetry]_vars

-----------------------------------------------------------------------------
(* Properties of one service call *)

\* the attempts made so far
Attempts == Len(outcomes)

\* every attempt made so far has failed
AllFailed == \A k \in 1..Len(outcomes) : ~outcomes[k].ok

\* the call makes at most max_retries attempts, returns the content of its
\* first successful attempt and makes no attempt after it
RetryBounded ==
    /\ Attempts <= max_retries
    /\ \A k \in 1..Len(outcomes) : outcomes[k].ok => k = Len(outcomes)
    /\ returned # <<>> =>
           /\ pc = "returned"
           /\ raised = <<>>
           /\ outcomes[Len(outcomes)].ok
           /\ returned = <<outcomes[Len(outcomes)].value>>
    /\ (outcomes # <<>> /\ outcomes[Len(outcomes)].ok) => pc = "returned"

\* C15: a service call makes at most max_retries attempts, returns the result
\* of the first successful attempt without a further attempt, and after
\* max_retries consecutive failed attempts raises the error of the last
\* attempt.
C15_Retry ==
    /\ RetryBounded
    /\ raised # <<>> =>
           /\ Attempts = max_retries
           /\ AllFailed
           /\ Attempts >= 1
           /\ raised = <<outcomes[Attempts].value>>

\* C15 as it holds: the same for max_retries of 1 or more; with max_retries
\* of 0 no attempt is made and a RuntimeError is raised.
C15_RetryAmended ==
    /\ RetryBounded
    /\ raised # <<>> =>
           /\ Attempts = max_retries
           /\ AllFailed
           /\ raised = <<IF max_retries >= 1 THEN outcomes[Attempts].value
                         ELSE RUNTIME_ERROR>>
    /\ (pc = "call_api" /\ Attempts = max_retries) => ENABLED RaiseAfterLoop

\* a call that raised the error of its third attempt, another error than
\* those of the first two
C15_Witness ==
    /\ pc = "raised"
    /\ max_retries = 3
    /\ Attempts = 3
    /\ raised = <<outcomes[3].value>>
    /\ outcomes[1].value # outcomes[3].value
    /\ outcomes[2].value # outcomes[3].value

\* a call that returned the content of its second attempt
C15_WitnessReturn ==
    /\ pc = "returned"
    /\ max_retries = 3
    /\ Attempts = 2
    /\ returned = <<outcomes[2].value>>


\* the failed attempts made so far
FailedAttempts == Cardinality({k \in 1..Len(outcomes) : ~outcomes[k].ok})

\* the smaller of two numbers
Min(a, b) == IF a <= b THEN a ELSE b

\* C26: the sleep after the k-th failed attempt (k from 0) is 2^k seconds,
\* there is none after the failed attempt number max_retries - 1, and a call
\* with max_retries = 3 that has failed three times has slept 1 s, then 2 s.
C26_Backoff ==
    /\ Len(sleeps) = Min(FailedAttempts, IF max_retries = 0 THEN 0 ELSE max_retries - 1)
    /\ \A k \in 1..Len(sleeps) : sleeps[k] = 2 ^ (k - 1)
    /\ (max_retries = 3 /\ pc = "raised") => sleeps = <<1, 2>>

\* a call with max_retries = 3 that has raised after three failed attempts
C26_Witness ==
    /\ pc = "raised"
    /\ max_retries = 3
    /\ FailedAttempts = 3
    /\ Len(sleeps) = 2

-----------------------------------------------------------------------------
(* One run of process_markdown_file: the document is rewritten by            *)
(* translate_large_document, validated against the input, polished by one    *)
(* more request and written. A request can also fail: call_api then raises   *)
(* after its retries, and nothing on the way up to main catches the error.   *)

\* longest enumerated input file, in lines
MaxFileLines == 2

\* a document of three chunks whose middle chunk is a blank line
DOC_BLANK_CHUNK == JoinNL(<<LINE_LONG, LINE_BLANK, LINE_LONG>>)

\* a document of three chunks without a blank line
DOC_THREE == JoinNL(<<LINE_LONG, LINE_LONG, LINE_LONG>>)

FileDocuments ==
    DocumentsOf(MaxFileLines) \cup {DOC_CONTEXT, DOC_BLANK_CHUNK, DOC_THREE}

InitFile ==
    /\ pc = "start"
    /\ text \in FileDocuments
    /\ protected_text = <<>>
    /\ all_protected_blocks = <<>>
    /\ restored = <<>>
    /\ PipeIdle
    /\ RetryIdle
    /\ ToolIdle

\* a failure that the caller swallows, going on from where it was
after_failure_caught(at) ==
    CASE at = "small_call" -> "done"
      [] at = "chunk_call" -> "loop"
      [] at = "validating" -> "validated"
      [] at = "polish_call" -> "written"

\* where the run is after an exception raised at a stage: translate_text,
\* post_optimize_translation, translate_large_document and
\* process_markdown_file have no try statement, so the exception leaves
\* process_markdown_file (main prints it and exits, 613-620)
after_failure(at) == "aborted"

\* call_api raises for the request of the small-document path (84-86, 378)
SmallCallFails ==
    /\ pc = "small_call"
    /\ errors' = Append(errors, "small_call")
    /\ pc' = after_failure("small_call")
    /\ UNCHANGED <<text, protected_text, all_protected_blocks, restored,
                   pipeVars, validation_reports, polish_requests, output_files,
                   retryVars,
                   toolVars>>

\* call_api raises for the request of a chunk (84-86, 378, 486)
ChunkCallFails ==
    /\ pc = "chunk_call"
    /\ errors' = Append(errors, "chunk_call")
    /\ pc' = after_failure("chunk_call")
    /\ UNCHANGED <<text, protected_text, all_protected_blocks, restored,
                   pipeVars, validation_reports, polish_requests, output_files,
                   retryVars,
                   toolVars>>

\* a validation run inside the chunk loop, on what is there before the join
ValidateEarly ==
    /\ pc = "loop"
    /\ validation_reports' =
           Append(validation_reports,
                  [is_valid |-> FALSE, issues |-> <<"length">>])
    /\ pc' = "validated"
    /\ UNCHANGED <<text, protected_text, all_protected_blocks, restored,
                   pipeVars, polish_requests, output_files, errors, retryVars,
                   toolVars>>

\* line 527: the returned document is validated against the content read
Validate ==
    /\ pc = "done"
    /\ \E result \in {validate_translation_completeness(text, final_text)} :
           IF result.raised
           THEN /\ errors' = Append(errors, "validating")
                /\ pc' = after_failure("validating")
                /\ UNCHANGED validation_reports
           ELSE /\ validation_reports' =
                       Append(validation_reports,
                              [is_valid |-> result.is_valid,
                               issues |-> result.issues])
                /\ pc' = "validated"
                /\ UNCHANGED errors
    /\ UNCHANGED <<text, protected_text, all_protected_blocks, restored,
                   pipeVars, polish_requests, output_files, retryVars,
                   toolVars>>

\* line 542 with 298-324: the returned document, when it is not blank, is
\* sent for polishing, whatever the validation has reported
SendPolish ==
    /\ pc = "validated"
    /\ ~IsBlank(final_text)
    /\ polish_requests' = Append(polish_requests, final_text)
    /\ pc' = "polish_call"
    /\ UNCHANGED <<text, protected_text, all_protected_blocks, restored,
                   pipeVars, validation_reports, output_files, errors,
                   retryVars,
                   toolVars>>

\* line 542 with 298-299 and 545-552: a blank document is not sent; it is
\* written as it is
SkipPolish ==
    /\ pc = "validated"
    /\ IsBlank(final_text)
    /\ output_files' = Append(output_files, final_text)
    /\ pc' = "written"
    /\ UNCHANGED <<text, protected_text, all_protected_blocks, restored,
                   pipeVars, validation_reports, polish_requests, errors,
                   retryVars,
                   toolVars>>

\* the service answers the polish request; the answer, cleaned of its
\* fence, is written (324-330, 545-552)
PolishReply ==
    /\ pc = "polish_call"
    /\ \E kind \in AnswerKinds :
           output_files' =
               Append(output_files, clean_answer(Answer(kind, final_text)))
    /\ pc' = "written"
    /\ UNCHANGED <<text, protected_text, all_protected_blocks, restored,
                   pipeVars, validation_reports, polish_requests, errors,
                   retryVars,
                   toolVars>>

\* call_api raises for the polish request (84-86, 324)
PolishCallFails ==
    /\ pc = "polish_call"
    /\ errors' = Append(errors, "polish_call")
    /\ pc' = after_failure("polish_call")
    /\ UNCHANGED <<text, protected_text, all_protected_blocks, restored,
                   pipeVars, validation_reports, polish_requests, output_files,
                   retryVars,
                   toolVars>>

NextFile ==
    \/ Next
    \/ SmallCallFails
    \/ ChunkCallFails
    \/ Validate
    \/ SendPolish
    \/ SkipPolish
    \/ PolishReply
    \/ PolishCallFails

SpecFile == InitFile /\ [][NextFile]_vars

-----------------------------------------------------------------------------
(* Properties of one run of process_markdown_file *)
\* the four conditions of the validity rule, on the content read and the
\* document returned by translate_large_document; a ratio with an empty
\* original is above any bound when the returned document is not empty and
\* is no number when it is empty too
PlaceholderCountsDiffer == TokenCount(text) # TokenCount(final_text)

ParagraphsExceed ==
    5 * Abs(Len(Paragraphs(text)) - Len(Paragraphs(final_text)))
        > Len(Paragraphs(text))

LinesExceed ==
    20 * Abs(Len(ContentLines(text)) - Len(ContentLines(final_text)))
        > 3 * Len(ContentLines(text))

RatioOutside ==
    IF Len(text) > 0
    THEN 10 * Len(final_text) < 3 * Len(text) \/ 2 * Len(final_text) > 3 * Len(text)
    ELSE Len(final_text) > 0

C14_NonBlocking ==
    /\ \A k \in 1..Len(errors) : errors[k] # "validating"
    /\ pc = "done" => ENABLED Validate
    /\ pc = "validated" =>
           /\ Len(validation_reports) = 1
           /\ ENABLED (SendPolish \/ SkipPolish)
    /\ pc = "polish_call" =>
           /\ polish_requests = <<final_text>>
           /\ ENABLED PolishReply
    /\ pc = "written" =>
           /\ Len(validation_reports) = 1
           /\ Len(output_files) = 1

\* a run that has polished and written a document reported invalid for its
\* placeholder count
C14_Witness ==
    /\ pc = "written"
    /\ Len(polish_requests) = 1
    /\ Len(output_files) = 1
    /\ ~validation_reports[1].is_valid
    /\ validation_reports[1].issues[1] = "placeholders"
    /\ PlaceholderCountsDiffer

\* a run on the empty document, validated and written
C14_WitnessEmpty ==
    /\ pc = "written"
    /\ text = <<>>
    /\ Len(validation_reports) = 1
\* C16: when the call for the document, for a chunk or for polishing has
\* failed, the run is aborted: the error is the only one, nothing has been
\* written, and no further step (request, validation, write) can follow.
C16_Abort ==
    /\ errors # <<>> =>
           /\ pc = "aborted"
           /\ Len(errors) = 1
           /\ output_files = <<>>
    /\ pc = "aborted" => ~ENABLED NextFile
    /\ pc = "written" => errors = <<>>

\* a run aborted at a chunk that is not the last: the chunks after it have
\* not been sent
C16_Witness ==
    /\ pc = "aborted"
    /\ errors = <<"chunk_call">>
    /\ chunk_index < Len(chunks)
    /\ Len(requests) = chunk_index
    /\ Len(translated_chunks) = chunk_index - 1
    /\ output_files = <<>>

\* a run aborted at the polish request: the rewritten document is not written
C16_WitnessPolish ==
    /\ pc = "aborted"
    /\ errors = <<"polish_call">>
    /\ final_text # <<>>
    /\ output_files = <<>>
\* the stages of a run in their order; Rewriting covers the single request
\* of a small document and the chunk loop
StageRank(at) ==
    CASE at = "start" -> 0
      [] at \in {"small_call", "loop", "chunk_call"} -> 1
      [] at = "done" -> 2
      [] at = "validated" -> 3
      [] at = "polish_call" -> 4
      [] at = "written" -> 5
      [] at = "aborted" -> 6

\* what has happened by each stage
StageOrder ==
    /\ requests # <<>> =>
           /\ pc # "start"
           /\ protected_text = protect_blocks(text).out
           /\ \A k \in 1..Len(requests) :
                  \/ requests[k].text = protected_text
                  \/ \E j \in 1..Len(chunks) : requests[k].text = chunks[j]
    /\ validation_reports # <<>> =>
           /\ StageRank(pc) >= 3
           /\ Len(translated_chunks) = Len(chunks)
           /\ chunks # <<>> =>
                  /\ full_translated = JoinNL(translated_chunks)
                  /\ final_text = finish_chunked(full_translated,
                                                 all_protected_blocks)
    /\ polish_requests # <<>> =>
           /\ StageRank(pc) >= 4
           /\ validation_reports # <<>>
    /\ output_files # <<>> =>
           /\ pc = "written"
           /\ validation_reports # <<>>
           /\ polish_requests # <<>> \/ IsBlank(final_text)

\* a step never goes back to an earlier stage, nor to an earlier chunk
StageStep ==
    /\ StageRank(pc') >= StageRank(pc)
    /\ chunk_index' >= chunk_index
    /\ Len(requests') > Len(requests) => StageRank(pc') = 1
    /\ Len(validation_reports') > Len(validation_reports) =>
           StageRank(pc) = 2
    /\ Len(polish_requests') > Len(polish_requests) => StageRank(pc) = 3
    /\ Len(output_files') > Len(output_files) => StageRank(pc) \in {3, 4}

\* C17: a run goes through its stages only in the order protecting,
\* (chunking,) rewriting chunk 1..n, joining, validating, (polishing,) done:
\* no request before protection has finished, validation only after all
\* chunks are joined, polishing only after validation, the output written
\* only after polishing.
C17_StageOrder == []StageOrder /\ [][StageStep]_vars

\* a chunked run that has gone through every stage and has written
C17_Witness ==
    /\ pc = "written"
    /\ Len(chunks) = 3
    /\ Len(requests) >= 2
    /\ Len(validation_reports) = 1
    /\ Len(polish_requests) = 1
    /\ Len(output_files) = 1
\* the original contents of the protected spans of the input
SpanOriginals ==
    {all_protected_blocks[k].original : k \in
        {j \in 1..Len(all_protected_blocks) :
            Contains(text, all_protected_blocks[j].original)}}

\* no original content of a protected span is in s
Shielded(s) == \A original \in SpanOriginals : ~Contains(s, original)

\* the requests for the document and for its chunks, contexts included, are
\* shielded
RewriteRequestsShielded ==
    \A k \in 1..Len(requests) :
        Shielded(requests[k].text) /\ Shielded(requests[k].context)

\* C19: in every request of a run (chunk rewrite, its context, final polish)
\* a protected span appears only as its placeholder; the original content
\* of a protected span is never part of a text sent to the service.
C19_Shielded ==
    /\ RewriteRequestsShielded
    /\ \A k \in 1..Len(polish_requests) : Shielded(polish_requests[k])
\* the report validation would give for the written document
ReportOnWritten ==
    [is_valid |->
         validate_translation_completeness(text, output_files[1]).is_valid,
     issues |->
         validate_translation_completeness(text, output_files[1]).issues]

\* the polish answer is shorter than the document sent for polishing
PolishDeleted ==
    /\ pc = "written"
    /\ polish_requests # <<>>
    /\ Len(output_files[1]) < Len(polish_requests[1])

\* C20: when the polishing pass deletes content there is no rollback, the
\* polish result is what is written, and the validation report of the run
\* reflects the document that is finally written.
C20_ReportReflectsWritten ==
    PolishDeleted =>
        /\ output_files[1] # final_text
        /\ validation_reports = <<ReportOnWritten>>
-----------------------------------------------------------------------------
(* Rasterization: process_pdf of academic_reader.py and pdf_to_images of     *)
(* pdf_to_images.py, on a path that exists or not, holding a document that   *)
(* convert_from_path can read or not.                                        *)

\* most pages of a document
MaxPages == 3

Entries == {"process_pdf", "pdf_to_images"}

FILE_NOT_FOUND == "FileNotFoundError"

InitRaster ==
    /\ pc = "raster_start"
    /\ text = <<>>
    /\ protected_text = <<>>
    /\ all_protected_blocks = <<>>
    /\ restored = <<>>
    /\ PipeIdle
    /\ RetryIdle
    /\ FixIdle
    /\ entry \in Entries
    /\ pdf_exists \in BOOLEAN
    /\ pdf_readable \in BOOLEAN
    /\ pdf_pages \in 0..MaxPages
    /\ pdf_exists = FALSE => pdf_readable = FALSE
    /\ pdf_readable = FALSE => pdf_pages = 0
    /\ save_intermediate \in BOOLEAN
    /\ dirs = {}
    /\ files = {}
    /\ service_calls = 0
    /\ page_num = 0

\* a path that does not exist found out only after the directories are made
PathMissingAfterMakedirs ==
    /\ pc = "raster_start"
    /\ ~pdf_exists
    /\ dirs' = dirs \cup {"pages"}
    /\ errors' = Append(errors, FILE_NOT_FOUND)
    /\ pc' = "raster_raised"
    /\ UNCHANGED <<text, protected_text, all_protected_blocks, restored,
                   pipeVars, validation_reports, polish_requests, output_files,
                   retryVars, entry, pdf_exists, pdf_readable, pdf_pages,
                   save_intermediate, files, service_calls, page_num, fixVars>>

\* if not os.path.exists(pdf_path): raise FileNotFoundError (academic_reader
\* 508-509, pdf_to_images 40-41), the first statement after the prints
PathMissing ==
    /\ pc = "raster_start"
    /\ ~pdf_exists
    /\ errors' = Append(errors, FILE_NOT_FOUND)
    /\ pc' = "raster_raised"
    /\ UNCHANGED <<text, protected_text, all_protected_blocks, restored,
                   pipeVars, validation_reports, polish_requests, output_files,
                   retryVars, rasterVars, fixVars>>

\* the path exists: the function goes on
PathFound ==
    /\ pc = "raster_start"
    /\ pdf_exists
    /\ pc' = IF entry = "process_pdf" THEN "setup" ELSE "rasterize"
    /\ UNCHANGED <<text, protected_text, all_protected_blocks, restored,
                   pipeVars, fileVars, retryVars, rasterVars, fixVars>>

\* setup_intermediate_dirs (137-151), called by process_pdf at 512
SetupDirs ==
    /\ pc = "setup"
    /\ dirs' = IF save_intermediate
               THEN dirs \cup {"intermediate/01_raw_extracted",
                               "intermediate/02_with_images"}
               ELSE dirs
    /\ pc' = "rasterize"
    /\ UNCHANGED <<text, protected_text, all_protected_blocks, restored,
                   pipeVars, fileVars, retryVars, entry, pdf_exists,
                   pdf_readable, pdf_pages, save_intermediate, files,
                   service_calls, page_num, fixVars>>

\* the pages directory is made and every page is saved as an image
\* (academic_reader 167-182, pdf_to_images 43-54)
Rasterize ==
    /\ pc = "rasterize"
    /\ pdf_readable
    /\ dirs' = dirs \cup {"pages"}
    /\ files' = files \cup {<<"pages", i>> : i \in 1..pdf_pages}
    /\ page_num' = 1
    /\ pc' = IF entry = "process_pdf" THEN "pages" ELSE "raster_done"
    /\ UNCHANGED <<text, protected_text, all_protected_blocks, restored,
                   pipeVars, fileVars, retryVars, entry, pdf_exists,
                   pdf_readable, pdf_pages, save_intermediate, service_calls,
                   fixVars>>

\* convert_from_path raises on a file it cannot read, after the pages
\* directory has been made
ConvertFails ==
    /\ pc = "rasterize"
    /\ ~pdf_readable
    /\ dirs' = dirs \cup {"pages"}
    /\ errors' = Append(errors, "PDFPageCountError")
    /\ pc' = "raster_raised"
    /\ UNCHANGED <<text, protected_text, all_protected_blocks, restored,
                   pipeVars, validation_reports, polish_requests, output_files,
                   retryVars, entry, pdf_exists, pdf_readable, pdf_pages,
                   save_intermediate, files, service_calls, page_num, fixVars>>

\* process_single_page (447-486): one request for the figures and tables,
\* whose failure is caught (212-219), one for the text, and the
\* intermediate files of the page
ProcessPage ==
    /\ pc = "pages"
    /\ page_num <= pdf_pages
    /\ service_calls' = service_calls + 2
    /\ dirs' = dirs \cup {"figures", "tables"}
    /\ files' = IF save_intermediate
                THEN files \cup {<<"intermediate/01_raw_extracted", page_num>>,
                                 <<"intermediate/02_with_images", page_num>>}
                ELSE files
    /\ page_num' = page_num + 1
    /\ UNCHANGED <<pc, text, protected_text, all_protected_blocks, restored,
                   pipeVars, fileVars, retryVars, entry, pdf_exists,
                   pdf_readable, pdf_pages, save_intermediate, fixVars>>

\* the request for the text of a page fails on every attempt (356): the
\* error leaves process_pdf
PageTextFails ==
    /\ pc = "pages"
    /\ page_num <= pdf_pages
    /\ service_calls' = service_calls + 2
    /\ dirs' = dirs \cup {"figures", "tables"}
    /\ errors' = Append(errors, "RequestException")
    /\ pc' = "raster_raised"
    /\ UNCHANGED <<text, protected_text, all_protected_blocks, restored,
                   pipeVars, validation_reports, polish_requests, output_files,
                   retryVars, entry, pdf_exists, pdf_readable, pdf_pages,
                   save_intermediate, files, page_num, fixVars>>

\* output.md and summary.json are written (549-565)
WriteOutput ==
    /\ pc = "pages"
    /\ page_num > pdf_pages
    /\ files' = files \cup {<<"output.md", 0>>, <<"summary.json", 0>>}
    /\ pc' = "raster_done"
    /\ UNCHANGED <<text, protected_text, all_protected_blocks, restored,
                   pipeVars, fileVars, retryVars, entry, pdf_exists,
                   pdf_readable, pdf_pages, save_intermediate, dirs,
                   service_calls, page_num, fixVars>>

NextRaster ==
    \/ PathMissing
    \/ PathFound
    \/ SetupDirs
    \/ Rasterize
    \/ ConvertFails
    \/ ProcessPage
    \/ PageTextFails
    \/ WriteOutput

SpecRaster == InitRaster /\ [][NextRaster]_vars

-----------------------------------------------------------------------------
(* Properties of rasterization *)

\* C23: when the path of the source document does not exist, process_pdf
\* and pdf_to_images raise FileNotFoundError before anything else happens:
\* no directory is created, the service is not called, no file is written.
C23_NotFoundFirst ==
    ~pdf_exists =>
        /\ pc \in {"raster_start", "raster_raised"}
        /\ pc = "raster_raised" => errors = <<FILE_NOT_FOUND>>
        /\ pc = "raster_start" => ENABLED PathMissing /\ ~ENABLED PathFound
        /\ dirs = {}
        /\ files = {}
        /\ service_calls = 0

\* process_pdf has raised for a path that does not exist
C23_Witness ==
    /\ entry = "process_pdf"
    /\ ~pdf_exists
    /\ pc = "raster_raised"
    /\ errors = <<FILE_NOT_FOUND>>

\* pdf_to_images has raised for a path that does not exist
C23_WitnessImages ==
    /\ entry = "pdf_to_images"
    /\ ~pdf_exists
    /\ pc = "raster_raised"

-----------------------------------------------------------------------------
(* fix_page.py: main parses the page list, fixes the listed pages one after  *)
(* the other and merges the page files of intermediate/02_with_images into   *)
(* output.md. The service and the user at the prompt are the environment.    *)

\* s.strip()
Strip(s) ==
    IF IsBlank(s) THEN <<>>
    ELSE Slice(s, SkipSpace(s, 1),
               CHOOSE q \in 1..Len(s) :
                   ~IsSpace(s[q]) /\ IsBlank(Slice(s, q + 1, Len(s))))

\* int(s) succeeds: digits with whitespace around them (the page strings of
\* the model hold no sign and no underscore)
IntOk(s) == Strip(s) # <<>> /\ \A k \in 1..Len(Strip(s)) : IsDigit(Strip(s)[k])

\* the pages of one part of the page string, after part.strip() (533-541):
\* a range start-end or a single page; ok is FALSE where int() or the
\* unpacking of part.split('-') raises ValueError
ParsePart(part) ==
    IF Contains(part, <<"-">>)
    THEN IF /\ Len(SplitOnFrom(part, <<"-">>, 1)) = 2
            /\ IntOk(SplitOnFrom(part, <<"-">>, 1)[1])
            /\ IntOk(SplitOnFrom(part, <<"-">>, 1)[2])
         THEN [ok |-> TRUE,
               pages |-> ParseInt(Strip(SplitOnFrom(part, <<"-">>, 1)[1]))
                         .. ParseInt(Strip(SplitOnFrom(part, <<"-">>, 1)[2]))]
         ELSE [ok |-> FALSE, pages |-> {}]
    ELSE IF IntOk(part)
         THEN [ok |-> TRUE, pages |-> {ParseInt(Strip(part))}]
         ELSE [ok |-> FALSE, pages |-> {}]

\* sorted(list(S)) for a set of numbers
RECURSIVE SortedSeq(_)
SortedSeq(S) ==
    IF S = {} THEN <<>>
    ELSE <<CHOOSE m \in S : \A n \in S : m <= n>>
         \o SortedSeq(S \ {CHOOSE m \in S : \A n \in S : m <= n})

\* the pages in the order in which the parts name them: no sort, no set
RECURSIVE PagesAsWritten(_)
PagesAsWritten(parts) ==
    IF parts = <<>> THEN <<>>
    ELSE SortedSeq(ParsePart(Strip(Head(parts))).pages)
         \o PagesAsWritten(Tail(parts))

\* the list returned for the parts: sorted(list(set(pages)))
PageList(parts) ==
    SortedSeq(UNION {ParsePart(Strip(parts[k])).pages : k \in 1..Len(parts)})

\* parse_page_numbers (526-543)
parse_page_numbers(page_str) ==
    [ok |-> \A k \in 1..Len(SplitOnFrom(page_str, <<",">>, 1)) :
                ParsePart(Strip(SplitOnFrom(page_str, <<",">>, 1)[k])).ok,
     pages |-> PageList(SplitOnFrom(page_str, <<",">>, 1))]

\* sep.join(parts)
RECURSIVE JoinWith(_, _)
JoinWith(sep, parts) ==
    IF parts = <<>> THEN <<>>
    ELSE IF Len(parts) = 1 THEN parts[1]
    ELSE parts[1] \o sep \o JoinWith(sep, Tail(parts))

\* first index >= i holding no newline, Len(s) + 1 when there is none
SkipNewlines(s, i) ==
    IF \A p \in i..Len(s) : s[p] = NL THEN Len(s) + 1
    ELSE CHOOSE p \in i..Len(s) : s[p] # NL /\ \A q \in i..(p - 1) : s[q] = NL

\* re.sub(r'\n{3,}', '\n\n', s) from position i on, one run of newlines at
\* a time
RECURSIVE CollapseFrom(_, _)
CollapseFrom(s, i) ==
    IF FindChar(s, i, NL) = 0 THEN Slice(s, i, Len(s))
    ELSE Slice(s, i, FindChar(s, i, NL) - 1)
         \o (IF SkipNewlines(s, FindChar(s, i, NL)) - FindChar(s, i, NL) >= 3
             THEN <<NL, NL>>
             ELSE Slice(s, FindChar(s, i, NL),
                        SkipNewlines(s, FindChar(s, i, NL)) - 1))
         \o CollapseFrom(s, SkipNewlines(s, FindChar(s, i, NL)))

\* the match of  !\[([^\]]*)\]\s*\(\s*([^)]+)\s*\)  starting at i: the
\* label ends at the first ], whitespace may stand before and after the
\* opening parenthesis, and the target runs to the first ) with the
\* whitespace before it; a target of whitespace only keeps its last
\* character
ImageRefMatch(s, i) ==
    LET a == FindChar(s, i + 2, "]")
        b == SkipSpace(s, a + 1)
        c == SkipSpace(s, b + 1)
        d == FindChar(s, b + 1, ")")
    IN  IF /\ StartsAt(s, i, <<"!", "[">>)
           /\ a # 0
           /\ b <= Len(s) /\ s[b] = "("
           /\ d > b + 1
        THEN [found |-> TRUE, label |-> Slice(s, i + 2, a - 1),
              target |-> IF c < d THEN Slice(s, c, d - 1) ELSE <<s[d - 1]>>,
              end |-> d]
        ELSE [found |-> FALSE, label |-> <<>>, target |-> <<>>, end |-> 0]

\* re.sub(that pattern, r'![\1](\2)', s) from position i on
RECURSIVE ImageRefsFrom(_, _)
ImageRefsFrom(s, i) ==
    LET hits == {h \in i..Len(s) : ImageRefMatch(s, h).found}
        h == CHOOSE x \in hits : \A g \in hits : x <= g
    IN  IF hits = {} THEN Slice(s, i, Len(s))
        ELSE Slice(s, i, h - 1)
             \o <<"!", "[">> \o ImageRefMatch(s, h).label
             \o <<"]", "(">> \o ImageRefMatch(s, h).target \o <<")">>
             \o ImageRefsFrom(s, ImageRefMatch(s, h).end + 1)

PAGE_SEPARATOR == <<NL, NL, "-", "-", "-", NL, NL>>

\* the text merge_all_pages writes for the loaded pages (456-462)
merged_markdown(all_pages) ==
    Strip(ImageRefsFrom(CollapseFrom(JoinWith(PAGE_SEPARATOR, all_pages), 1), 1))

\* most pages of the processed document
MaxFixPages == 2

\* the page strings given on the command line
PAGES_ONE == <<"2">>
PAGES_DESCENDING == <<"3", ",", "1">>
PAGES_RANGE == <<"1", "-", "3">>
PAGES_TWICE == <<"2", ",", "1", "-", "2">>
PAGES_SPACED == <<" ", "1", " ", ",", " ", "2">>
PAGES_EMPTY_RANGE == <<"3", "-", "1">>
PAGES_NOT_A_NUMBER == <<"x">>
PAGES_TWO_DASHES == <<"1", "-", "2", "-", "3">>

PageStrings ==
    {PAGES_ONE, PAGES_DESCENDING, PAGES_RANGE, PAGES_TWICE, PAGES_SPACED,
     PAGES_EMPTY_RANGE, PAGES_NOT_A_NUMBER, PAGES_TWO_DASHES}

\* the page file left by the first run for page i
OldPage(i) == <<"o", Digits[i + 1]>>

\* the markdown of a page after a fix: plain, or with a spaced image
\* reference, a run of newlines and whitespace at the end
FIXED_PLAIN == <<"n">>
FIXED_RAGGED == <<"!", "[", "f", "]", " ", "(", " ", "u", ")", NL, NL, NL, NL, "z", " ">>

FixedPages == {FIXED_PLAIN, FIXED_RAGGED}

OLD_OUTPUT == <<"o", "u", "t">>

\* what the user types at the prompt of merge_all_pages
Answers == {<<"y">>, <<"Y">>, <<"n">>, <<>>, <<"y", "e", "s">>}

\* the answer compared as it was typed
lower_not_applied(s) == s

\* str.lower() on the answers of the model
Lower(s) == [k \in 1..Len(s) |-> IF s[k] = "Y" THEN "y" ELSE s[k]]

\* get_total_pages (136-139): the number of page images
get_total_pages == Cardinality({f \in files : f[1] = "pages"})

InitFix ==
    /\ pc = "fix_parse"
    /\ text = <<>>
    /\ protected_text = <<>>
    /\ all_protected_blocks = <<>>
    /\ restored = <<>>
    /\ PipeIdle
    /\ RetryIdle
    /\ entry = "fix_page"
    /\ pdf_exists = FALSE
    /\ pdf_readable = FALSE
    /\ pdf_pages = 0
    /\ save_intermediate = FALSE
    /\ total_pages \in 1..MaxFixPages
    /\ files = {<<"pages", i>> : i \in 1..total_pages}
    /\ service_calls = 0
    /\ page_num = 0
    /\ page_args \in PageStrings
    /\ no_merge \in BOOLEAN
    /\ \E present \in SUBSET (1..total_pages) :
           /\ page_md = [i \in 1..total_pages |->
                            IF i \in present THEN <<OldPage(i)>> ELSE <<>>]
           /\ dirs = IF present = {} THEN {"pages"}
                     ELSE {"pages", "intermediate/02_with_images"}
    /\ output_md \in {<<>>, <<OLD_OUTPUT>>}
    /\ page_numbers = <<>>
    /\ attempted = <<>>
    /\ failed = {}
    /\ answers = <<>>
    /\ merge_returned = <<>>

\* parse_page_numbers raises: main prints the error and exits (567-572)
ParseFails ==
    /\ pc = "fix_parse"
    /\ ~parse_page_numbers(page_args).ok
    /\ errors' = Append(errors, "ValueError")
    /\ pc' = "fix_exit"
    /\ UNCHANGED <<text, protected_text, all_protected_blocks, restored,
                   pipeVars, validation_reports, polish_requests, output_files,
                   retryVars, toolVars>>

\* the page list is parsed and the fixer is made (567-584)
ParsePages ==
    /\ pc = "fix_parse"
    /\ parse_page_numbers(page_args).ok
    /\ page_numbers' = parse_page_numbers(page_args).pages
    /\ pc' = "fix_pages"
    /\ UNCHANGED <<text, protected_text, all_protected_blocks, restored,
                   pipeVars, fileVars, retryVars, rasterVars, page_args,
                   no_merge, total_pages, page_md, output_md, attempted,
                   failed, answers, merge_returned>>

\* the page the loop of main is at (592)
CurrentPage == page_numbers[Len(attempted) + 1]

\* fix_single_page raises FileNotFoundError for a page without image
\* (396-398); main prints it and goes on (597-601)
FixPageNoImage ==
    /\ pc = "fix_pages"
    /\ Len(attempted) < Len(page_numbers)
    /\ <<"pages", CurrentPage>> \notin files
    /\ attempted' = Append(attempted, CurrentPage)
    /\ failed' = failed \cup {CurrentPage}
    /\ UNCHANGED <<pc, text, protected_text, all_protected_blocks, restored,
                   pipeVars, fileVars, retryVars, rasterVars, page_args,
                   no_merge, total_pages, page_md, output_md, page_numbers,
                   answers, merge_returned>>

\* fix_single_page on a page with image: the request for the figures and
\* tables (its failure is caught, 175-184), the request for the text, the
\* raw text and the page file (400-414)
FixPage ==
    /\ pc = "fix_pages"
    /\ Len(attempted) < Len(page_numbers)
    /\ <<"pages", CurrentPage>> \in files
    /\ \E markdown \in FixedPages :
           page_md' = [page_md EXCEPT ![CurrentPage] = <<markdown>>]
    /\ service_calls' = service_calls + 2
    /\ dirs' = dirs \cup {"figures", "tables", "intermediate/01_raw_extracted",
                          "intermediate/02_with_images"}
    /\ files' = files \cup {<<"intermediate/01_raw_extracted", CurrentPage>>}
    /\ attempted' = Append(attempted, CurrentPage)
    /\ UNCHANGED <<pc, text, protected_text, all_protected_blocks, restored,
                   pipeVars, fileVars, retryVars, entry, pdf_exists,
                   pdf_readable, pdf_pages, save_intermediate, page_num,
                   page_args, no_merge, total_pages, output_md, page_numbers,
                   failed, answers, merge_returned>>

\* a loop that ends at the first page that fails
FixPageCallFailsStops ==
    /\ pc = "fix_pages"
    /\ Len(attempted) < Len(page_numbers)
    /\ <<"pages", CurrentPage>> \in files
    /\ service_calls' = service_calls + 2
    /\ dirs' = dirs \cup {"figures", "tables"}
    /\ attempted' = Append(attempted, CurrentPage)
    /\ failed' = failed \cup {CurrentPage}
    /\ errors' = Append(errors, "RequestException")
    /\ pc' = "fix_exit"
    /\ UNCHANGED <<text, protected_text, all_protected_blocks, restored,
                   pipeVars, validation_reports, polish_requests, output_files,
                   retryVars, entry, pdf_exists,
                   pdf_readable, pdf_pages, save_intermediate, files, page_num,
                   page_args, no_merge, total_pages, page_md, output_md,
                   page_numbers, answers, merge_returned>>

\* the request for the text fails on every attempt (303): fix_single_page
\* raises before it writes, main prints the error and goes on (597-601)
FixPageCallFails ==
    /\ pc = "fix_pages"
    /\ Len(attempted) < Len(page_numbers)
    /\ <<"pages", CurrentPage>> \in files
    /\ service_calls' = service_calls + 2
    /\ dirs' = dirs \cup {"figures", "tables"}
    /\ attempted' = Append(attempted, CurrentPage)
    /\ failed' = failed \cup {CurrentPage}
    /\ UNCHANGED <<pc, text, protected_text, all_protected_blocks, restored,
                   pipeVars, fileVars, retryVars, entry, pdf_exists,
                   pdf_readable, pdf_pages, save_intermediate, files, page_num,
                   page_args, no_merge, total_pages, page_md, output_md,
                   page_numbers, answers, merge_returned>>

\* the loop is over: main calls merge_all_pages unless --no-merge (604-608)
PagesDone ==
    /\ pc = "fix_pages"
    /\ Len(attempted) = Len(page_numbers)
    /\ pc' = IF no_merge THEN "fix_done" ELSE "merge"
    /\ UNCHANGED <<text, protected_text, all_protected_blocks, restored,
                   pipeVars, fileVars, retryVars, toolVars>>

\* the pages merge_all_pages finds missing (438-447)
missing_pages == {i \in 1..get_total_pages : page_md[i] = <<>>}

\* the contents it loads, in the order of the loop
all_pages ==
    [k \in 1..Len(SortedSeq((1..get_total_pages) \ missing_pages)) |->
        page_md[SortedSeq((1..get_total_pages) \ missing_pages)[k]][1]]

\* no page file is missing: output.md is written (456-474)
MergeComplete ==
    /\ pc = "merge"
    /\ missing_pages = {}
    /\ output_md' = <<merged_markdown(all_pages)>>
    /\ merge_returned' = <<"output.md">>
    /\ pc' = "fix_done"
    /\ UNCHANGED <<text, protected_text, all_protected_blocks, restored,
                   pipeVars, fileVars, retryVars, rasterVars, page_args,
                   no_merge, total_pages, page_md, page_numbers, attempted,
                   failed, answers>>

\* a page file is missing and the user answers at the prompt (449-454):
\* output.md is written when response.lower() is y, None is returned otherwise
MergeAsk ==
    /\ pc = "merge"
    /\ missing_pages # {}
    /\ \E response \in Answers :
           /\ answers' = Append(answers, response)
           /\ output_md' = IF Lower(response) # <<"y">> THEN output_md
                           ELSE <<merged_markdown(all_pages)>>
           /\ merge_returned' = IF Lower(response) # <<"y">> THEN <<"None">>
                                ELSE <<"output.md">>
    /\ pc' = "fix_done"
    /\ UNCHANGED <<text, protected_text, all_protected_blocks, restored,
                   pipeVars, fileVars, retryVars, rasterVars, page_args,
                   no_merge, total_pages, page_md, page_numbers, attempted,
                   failed>>

\* a page file is missing and the prompt has no input to read: input()
\* raises EOFError, which main prints before it exits (610-614)
MergeNoInput ==
    /\ pc = "merge"
    /\ missing_pages # {}
    /\ errors' = Append(errors, "EOFError")
    /\ pc' = "fix_exit"
    /\ UNCHANGED <<text, protected_text, all_protected_blocks, restored,
                   pipeVars, validation_reports, polish_requests, output_files,
                   retryVars, toolVars>>

NextFix ==
    \/ ParseFails
    \/ ParsePages
    \/ FixPageNoImage
    \/ FixPage
    \/ FixPageCallFails
    \/ PagesDone
    \/ MergeComplete
    \/ MergeAsk
    \/ MergeNoInput

SpecFix == InitFix /\ [][NextFix]_vars

-----------------------------------------------------------------------------
(* Properties of fix_page.py *)

\* the pages the page string lists
ListedPages ==
    UNION {ParsePart(Strip(SplitOnFrom(page_args, <<",">>, 1)[k])).pages :
              k \in 1..Len(SplitOnFrom(page_args, <<",">>, 1))}

\* the run has got past the parsing of the page string
PagesParsed == pc \in {"fix_pages", "merge", "fix_done"} \/ errors = <<"EOFError">>

\* C29: a page that fails does not end the run of main: the listed pages
\* are attempted one after the other in ascending order whether or not an
\* earlier one has failed, and after the last one the merge runs unless
\* --no-merge was given; main exits early only for a page string it cannot
\* parse, before any page, or at the prompt of the merge.
C29_FailureDoesNotStop ==
    /\ pc = "fix_exit" =>
           \/ errors = <<"ValueError">> /\ attempted = <<>> /\ service_calls = 0
           \/ errors = <<"EOFError">>
    /\ PagesParsed =>
           /\ {page_numbers[k] : k \in 1..Len(page_numbers)} = ListedPages
           /\ \A k \in 1..(Len(page_numbers) - 1) :
                  page_numbers[k] < page_numbers[k + 1]
           /\ Len(attempted) <= Len(page_numbers)
           /\ attempted = SubSeq(page_numbers, 1, Len(attempted))
           /\ failed \subseteq {attempted[k] : k \in 1..Len(attempted)}
           /\ (pc = "fix_pages" /\ Len(attempted) < Len(page_numbers))
                  => ENABLED (FixPage \/ FixPageNoImage)
           /\ pc = "fix_pages" => ENABLED (FixPage \/ FixPageNoImage \/ PagesDone)
           /\ pc # "fix_pages" =>
                  /\ attempted = page_numbers
                  /\ no_merge => (pc = "fix_done" /\ merge_returned = <<>>
                                      /\ answers = <<>>)
                  /\ ~no_merge =>
                         \/ pc = "merge"
                         \/ pc = "fix_done" /\ merge_returned # <<>>
                         \/ pc = "fix_exit" /\ errors = <<"EOFError">>

\* a run over the pages 1, 2, 3 where the first page failed at the service,
\* the second was fixed, the third has no image, and the merge has written
C29_Witness ==
    /\ pc = "fix_done"
    /\ attempted = <<1, 2, 3>>
    /\ failed = {1, 3}
    /\ page_md[2] \in {<<m>> : m \in FixedPages}
    /\ merge_returned = <<"output.md">>

\* a run whose only listed page failed and that was told not to merge
C29_WitnessNoMerge ==
    /\ pc = "fix_done"
    /\ no_merge
    /\ attempted = <<2>>
    /\ failed = {2}

\* the step in which merge_all_pages returns
MergeReturns == pc = "merge" /\ pc' = "fix_done"

\* C30 as stated: with a page file missing and an answer other than y,
\* merge_all_pages returns None and leaves output.md as it was; with the
\* answer y, or with no page file missing, it writes the present pages in
\* ascending page order.
C30_MergeFrame ==
    [][MergeReturns =>
          IF missing_pages # {} /\ answers'[Len(answers')] # <<"y">>
          THEN merge_returned' = <<"None">> /\ output_md' = output_md
          ELSE /\ merge_returned' = <<"output.md">>
               /\ output_md' = <<merged_markdown(all_pages)>>]_vars

\* C30 as it holds: the answer counts as y in either case of the letter
C30_MergeFrameAmended ==
    [][MergeReturns =>
          IF missing_pages # {}
             /\ answers'[Len(answers')] \notin {<<"y">>, <<"Y">>}
          THEN /\ merge_returned' = <<"None">>
               /\ output_md' = output_md
               /\ page_md' = page_md
          ELSE /\ merge_returned' = <<"output.md">>
               /\ output_md' = <<merged_markdown(all_pages)>>
               /\ page_md' = page_md]_vars

\* the merge has written the second page alone after the answer Y, over an
\* output.md that was there
C30_Witness ==
    /\ pc = "fix_done"
    /\ total_pages = 2
    /\ page_md[1] = <<>>
    /\ page_md[2] = <<FIXED_RAGGED>>
    /\ answers = <<(<<"Y">>)>>
    /\ merge_returned = <<"output.md">>
    /\ output_md = <<merged_markdown(<<FIXED_RAGGED>>)>>

\* the merge was cancelled by the answer n and output.md is there as before
C30_WitnessCancelled ==
    /\ pc = "fix_done"
    /\ answers = <<(<<"n">>)>>
    /\ merge_returned = <<"None">>
    /\ output_md = <<OLD_OUTPUT>>

\* both pages present, written in the order 1, 2 with the rule between
C30_WitnessBoth ==
    /\ pc = "fix_done"
    /\ page_md = <<(<<OldPage(1)>>), (<<FIXED_PLAIN>>)>>
    /\ output_md = <<OldPage(1) \o PAGE_SEPARATOR \o FIXED_PLAIN>>

====
